---- MODULE Spec2Model ----
(***************************************************************************)
(* Model of The-Arch: the transactional vault tree (vault_core.py), the    *)
(* credential vault with its recovery lockout (auth.py), the secret buffer *)
(* (securestring.py) and the key handling and file streaming of crypto.py. *)
(* The specifications that share the module:                               *)
(*   Spec        - transactions committed from concurrent threads, saves   *)
(*   SpecLoad    - the persisted tree: saves, damage, reopening            *)
(*   SpecQueue   - the operation queue, its worker and one transaction     *)
(*   SpecAuth    - SecureAuthManager: the password path                    *)
(*   SpecLockout - RecoveryProtection and the recovery path                *)
(*   SpecSS      - SecureString                                            *)
(*   SpecKey     - SecureKeyContainer and the keys of SecureCryptoManager  *)
(*   SpecStream  - encrypt_large_file and decrypt_large_file               *)
(*   SpecAuthDamaged - SpecAuth with a damaged credential record           *)
(*   SpecAdd     - concurrent add_file calls and saves                     *)
(*   SpecTx      - transactions that are abandoned or used again           *)
(*   SpecDangling - saving and loading trees with dangling references      *)
(*   SpecBackup  - saves and commits on a directory with retained backups  *)
(*   SpecFiles   - folders, vault files, extract_file, verify_integrity    *)
(*   SpecUnlock  - password attempts beside recovery attempts              *)
(*   SpecAnswers - recovery answers of either letter case                  *)
(*   SpecAux     - an auxiliary key of SecureCryptoManager at its ceiling  *)
(*   SpecModes   - encrypt_file and decrypt_file near the 10 MiB threshold *)
(*   SpecLive    - callers, the worker and cleanup(), with fairness        *)
(*   SpecOwner   - add_file into folders that are unlocked or unknown      *)
(*   SpecCut     - _save_filesystem interrupted before the rename          *)
(***************************************************************************)
EXTENDS Integers, Sequences, FiniteSets, TLC

(***************************************************************************)
(* Bounds of the store model                                               *)
(***************************************************************************)
MaxFiles == 3
MaxOps == 2
MaxClock == 1
MaxKeyUsesLeft == 5

\* the transaction objects and the threads that call add_file directly
Txs == {1, 2}
Callers == {1, 2}

\* secrets.token_hex(16) in encrypt_file: a fresh id per encrypted file
FileIdSeq == <<"f1", "f2", "f3", "f4", "f5">>

\* the source paths a caller may name: an existing file and a missing one
Paths == {"good", "missing"}

\* backups[10:] are pruned by _create_filesystem_backup
Retention == 10

NoFile == [kind |-> "absent"]
MasterKey == "mk"

\* SecureKeyContainer._max_usage_before_rekey
max_usage_before_rekey == 100

VARIABLES
    filesystem,     \* SecureVaultCore.filesystem: the in-memory tree
    primary,        \* content of data/filesystem.json.enc
    backups,        \* data/backups/filesystem_backup_<ts>: ts -> content
    quarantine,     \* data/backups/corrupted_filesystem_<ts>.bak: ts -> content
    tempFile,       \* the temp file of _atomic_file_operation left beside the primary
    txBackups,      \* data/backups/transaction_backup_*: tx -> content
    cipherFiles,    \* data/encrypted_files/<id>.myarc that exist
    nextId,         \* number of file ids drawn so far
    now,            \* the wall clock, in seconds
    txState,        \* VaultTransaction._state
    txOps,          \* VaultTransaction.operations
    txIdx,          \* number of operations commit() has executed
    txResults,      \* results of commit(): the ids returned by the operations
    txBackupFiles,  \* VaultTransaction._backup_files (non-empty or not)
    opQueue,        \* SecureVaultCore._operation_queue
    callerPc,       \* position of each add_file/extract_file caller
    response,       \* the private result_queue of each caller
    worker,         \* the thread of _process_operations: "running" or "stopped"
    lastCall,       \* the last store operation that ran; a load also names
                    \* the save or the damage it directly follows
    lastExc,        \* the exception that operation raised, or "none"
    key_usage_count,\* SecureKeyContainer._key_usage_count of the master key
    \* ---- auth.py ----
    config,         \* SecureAuthManager.config
    failed_attempts,\* RecoveryProtection.failed_attempts[user_id]
    history,        \* every attempt recorded since the last clear
    clock,          \* time.time(), in seconds
    slept,          \* seconds spent in the 1 second floor of failed recoveries
    nKeys,          \* number of encoder keys generated so far
    curPw,          \* the password most recently set by a call that succeeded
    config_file,    \* content of data/vault_config.json
    persistFailed,  \* some call has failed in _save_config
    lastResult,     \* outcome of the auth call that has just returned
    \* ---- securestring.py ----
    data_buffer,    \* SecureString._data_buffer (None or the bytes)
    length,         \* SecureString._length
    lockOwner,      \* holder of SecureString._lock
    ssPc,           \* position of each thread inside a SecureString method
    ssRes,          \* what each thread's last call returned or raised
    ssCleared,      \* some secure_clear() call has returned
    \* ---- crypto.py ----
    master_loaded,  \* SecureKeyContainer._secure_key of the master key is set
    active_keys,    \* SecureCryptoManager._active_keys: key id -> container
    cmPc,           \* position of each thread inside a crypto manager method
    cmRes,          \* what each thread's last crypto manager call returned
    retrievals,     \* retrieve() calls on the master key that returned it
    cmCleared,      \* a manager secure_clear() has returned, no key set since
    \* ---- crypto.py, encrypt_large_file and decrypt_large_file ----
    lfState,        \* how far the two calls have come
    lfSize,         \* length in bytes of the plaintext file
    lfFolderKey,    \* the folder_key argument of both calls, or "none"
    lfInPos,        \* bytes encrypt_large_file has read from the plaintext
    lfVault,        \* the vault file: header and the tokens appended to it
    lfRdPos,        \* bytes decrypt_large_file has read after the header
    lfOut,          \* the chunks decrypt_large_file has written
    lfExc,          \* the exception either call raised, or "none"
    \* ---- folder_security.py and the files of the vault ----
    unlocked_folders, \* SecureFolderSecurityManager.unlocked_folders: the ids
    replaced,       \* vault files that now hold the ciphertext of other data
    outputPath,     \* what the output path of extract_file holds
    issues          \* what the last verify_integrity() returned, by file

storeVars == <<filesystem, primary, backups, quarantine, tempFile, txBackups, cipherFiles,
               nextId, now, txState, txOps, txIdx, txResults, txBackupFiles,
               opQueue, callerPc, response, worker, lastCall, lastExc,
               key_usage_count>>
authVars == <<config, failed_attempts, history, clock, slept, nKeys, curPw,
              config_file, persistFailed, lastResult>>
ssVars == <<data_buffer, length, lockOwner, ssPc, ssRes, ssCleared>>
cryptoVars == <<master_loaded, active_keys, cmPc, cmRes, retrievals, cmCleared>>
streamVars == <<lfState, lfSize, lfFolderKey, lfInPos, lfVault, lfRdPos, lfOut, lfExc>>
fileVars == <<unlocked_folders, replaced, outputPath, issues>>
vars == <<storeVars, authVars, ssVars, cryptoVars, streamVars, fileVars>>

(***************************************************************************)
(* Serialisation and sealing of the tree                                   *)
(***************************************************************************)

\* json.dumps of a dict: the list of its key/value pairs
JsonObj(f) == {<<k, f[k]>> : k \in DOMAIN f}

\* json.loads of an object: the dict rebuilt from the pairs
JsonDict(o) == [k \in {p[1] : p \in o} |-> (CHOOSE p \in o : p[1] = k)[2]]

json_dumps(tree) ==
    [files |-> JsonObj(tree.files), folders |-> JsonObj(tree.folders),
     version |-> <<"str", tree.version>>]

json_loads(text) ==
    [files |-> JsonDict(text.files), folders |-> JsonDict(text.folders),
     version |-> text.version[2]]

sha256(data) == <<"sha256", data>>

\* Fernet: a token opens only under the key that sealed it
encrypt_with_master_key(data) == [kind |-> "token", key |-> MasterKey, body |-> data]

CanDecrypt(content) == content.kind = "token" /\ content.key = MasterKey

\* the record _save_filesystem writes
Payload(tree) ==
    [kind |-> "payload", data |-> json_dumps(tree),
     checksum |-> sha256(json_dumps(tree)), version |-> "2.0"]

\* the record VaultTransaction._create_backup writes: the bare tree
RawTree(tree) == [kind |-> "raw", data |-> json_dumps(tree)]

EmptyFile == [kind |-> "empty"]
Garbage == [kind |-> "garbage"]

EmptyMap == [k \in {} |-> k]

Range(f) == {f[i] : i \in DOMAIN f}

\* _create_default_filesystem: the tree holding only the root folder
default_filesystem ==
    [files |-> EmptyMap,
     folders |-> [f \in {"root"} |-> [id |-> "root", parent |-> "None", children |-> << >>]],
     version |-> "2.0"]

\* SecureKeyContainer.needs_rekeying: _get_master_key raises SecurityError
\* instead of retrieving the key once the use count is at the ceiling
needs_rekeying(n) == n >= max_usage_before_rekey

\* the timestamps of the retained filesystem_backup_ files, newest first:
\* backups.sort(reverse=True) on (mtime, path); copy2 keeps the mtime of the
\* primary, so the order is the order of the saves
RECURSIVE SortedDesc(_)
SortedDesc(S) ==
    IF S = {} THEN << >>
    ELSE LET m == CHOOSE x \in S : \A y \in S : y <= x
         IN <<m>> \o SortedDesc(S \ {m})

\* backups[0][1] in _load_filesystem: the most recent backup
LatestBackup(bk) == SortedDesc(DOMAIN bk)[1]

\* _create_filesystem_backup: copy the primary to filesystem_backup_<now>
\* and remove backups[10:]
create_filesystem_backup(bk, prim, t) ==
    LET withNew == [k \in DOMAIN bk \cup {t} |-> IF k = t THEN prim ELSE bk[k]]
        order == SortedDesc(DOMAIN withNew)
        kept == {order[i] : i \in {j \in 1..Len(order) : j <= Retention}}
    IN [k \in kept |-> withNew[k]]

\* _save_filesystem with n master-key uses so far: seal the checksummed
\* payload, replace the primary, then back it up; SecurityError, with the
\* files left as they were, when the key may not be retrieved
save_filesystem(tree, prim, bk, t, n) ==
    IF needs_rekeying(n)
    THEN [ok |-> FALSE, exc |-> "SecurityError", primary |-> prim, backups |-> bk,
          count |-> n]
    ELSE LET sealed == encrypt_with_master_key(Payload(tree))
         IN [ok |-> TRUE, exc |-> "none", primary |-> sealed,
             backups |-> create_filesystem_backup(bk, sealed, t), count |-> n + 1]

\* _restore_from_backup on a file holding content: what it raises, and the
\* tree, the files and the use count it leaves.  self.filesystem is assigned
\* before the _save_filesystem that ends it.
restore_from_backup(content, tree, prim, bk, t, n) ==
    LET failed(exc, count) ==
            [ok |-> FALSE, exc |-> exc, filesystem |-> tree, primary |-> prim,
             backups |-> bk, count |-> count]
    IN
    IF content.kind = "absent" THEN failed("FileNotFoundError", n)
    ELSE IF needs_rekeying(n) THEN failed("SecurityError", n)
    ELSE IF ~CanDecrypt(content) THEN failed("InvalidToken", n + 1)
    ELSE LET payload == content.body IN
         IF payload.kind = "raw" THEN failed("KeyError", n + 1)
         ELSE IF sha256(payload.data) # payload.checksum THEN failed("ValueError", n + 1)
         ELSE LET restored == json_loads(payload.data)
                  saved == save_filesystem(restored, prim, bk, t, n + 1)
              IN [ok |-> saved.ok, exc |-> saved.exc, filesystem |-> restored,
                  primary |-> saved.primary, backups |-> saved.backups,
                  count |-> saved.count]

\* _atomic_file_operation(filesystem_path, read_operation, 'rb'): the callback
\* gets the temporary file, opened 'wb'; temp_file.read() raises
\* io.UnsupportedOperation, a ValueError, and the primary is left as it was
atomic_file_operation_read(content) == [ok |-> FALSE, exc |-> "ValueError"]

\* the try block of _load_filesystem: which handler the primary file ends in
\*   "recover" - except (JSONDecodeError, ValueError, KeyError)
\*   "default" - except Exception
LoadOutcome(content) ==
    LET read == atomic_file_operation_read(content) IN
    IF ~read.ok
    THEN (IF read.exc \in {"JSONDecodeError", "ValueError", "KeyError"}
          THEN "recover" ELSE "default")
    ELSE IF ~CanDecrypt(content) THEN "default"
    ELSE IF content.body.kind = "payload" /\ content.body.version # "2.0" THEN "recover"
    ELSE IF content.body.kind = "payload" /\ sha256(content.body.data) # content.body.checksum
         THEN "recover"
    \* _optimize_filesystem_structure is not defined: AttributeError
    ELSE "default"

\* _create_default_filesystem: the default tree is assigned, then saved
create_default_filesystem(prim, bk, t, n) ==
    LET saved == save_filesystem(default_filesystem, prim, bk, t, n)
    IN [exc |-> saved.exc, filesystem |-> default_filesystem,
        primary |-> saved.primary, backups |-> saved.backups, count |-> saved.count]

\* _load_filesystem: the exception that leaves it ("none" when it returns),
\* and the tree, the files and the use count it leaves
load_filesystem(tree, prim, bk, t, n) ==
    IF prim.kind = "absent" \/ prim.kind = "empty"
    THEN create_default_filesystem(prim, bk, t, n)
    ELSE IF LoadOutcome(prim) = "recover" /\ DOMAIN bk # {}
    THEN LET r == restore_from_backup(bk[LatestBackup(bk)], tree, prim, bk, t, n) IN
         IF r.ok
         THEN [exc |-> "none", filesystem |-> r.filesystem, primary |-> r.primary,
               backups |-> r.backups, count |-> r.count]
         \* the bare except of the handler
         ELSE create_default_filesystem(r.primary, r.backups, t, r.count)
    ELSE create_default_filesystem(prim, bk, t, n)

\* _backup_corrupted_filesystem runs in the first handler only
Quarantines(prim) ==
    prim.kind \notin {"absent", "empty"} /\ LoadOutcome(prim) = "recover"

(***************************************************************************)
(* File operations on the tree                                             *)
(***************************************************************************)

\* the bytes of a file, by what the file is
FileData(what) == <<"bytes", what>>

\* calculate_file_hash: the SHA-256 digest of the bytes
calculate_file_hash(data) == sha256(data)

\* SecureFolderSecurityManager.is_folder_unlocked
is_folder_unlocked(folder_id) == folder_id \in unlocked_folders

\* the methods SecureCryptoManager defines (crypto.py)
CryptoManagerMethods ==
    {"secure_clear", "encrypt_data", "decrypt_data", "encrypt_file", "encrypt_large_file",
     "decrypt_file", "decrypt_large_file", "generate_key_from_password",
     "encrypt_with_master_key", "decrypt_with_master_key", "calculate_file_hash",
     "register_key", "unregister_key", "_secure_erase", "_get_master_key",
     "_secure_delete_file"}

\* decrypt_file on the vault file of id: the bytes it writes
decrypt_file(id) == IF id \in replaced THEN FileData("other") ELSE FileData("good")

FileNode(id, folder_id) ==
    [id |-> id, folder_id |-> folder_id, vault_filename |-> id,
     hash |-> calculate_file_hash(FileData("good"))]

\* _transactional_add_file, the part under _filesystem_lock: the FileNode is
\* stored and, when the folder is in the tree, the id is appended to its
\* child list
AddToTree(tree, id, folder_id) ==
    [tree EXCEPT
        !.files = [k \in DOMAIN tree.files \cup {id} |->
                      IF k = id THEN FileNode(id, folder_id) ELSE tree.files[k]],
        !.folders = [d \in DOMAIN tree.folders |->
                        IF d = folder_id
                        THEN [tree.folders[d] EXCEPT !.children = Append(@, id)]
                        ELSE tree.folders[d]]]

\* _transactional_add_file with n master-key uses so far: the exception it
\* raises, or "ok"; encrypt_file seals the file key under the master key
add_file_outcome(file_path, folder_id, n) ==
    IF folder_id # "root" /\ ~is_folder_unlocked(folder_id) THEN "PermissionError"
    ELSE IF file_path = "missing" THEN "FileNotFoundError"
    ELSE IF needs_rekeying(n) THEN "SecurityError"
    ELSE "ok"

\* _transactional_extract_file: the exception it raises, or "ok".
\* SecureCryptoManager has no _create_secure_temp_file, so a file that is
\* found ends in AttributeError before anything is decrypted.
extract_file_outcome(tree, cipher, file_id) ==
    IF file_id \notin DOMAIN tree.files THEN "FileNotFoundError"
    ELSE IF tree.files[file_id].folder_id # "root"
            /\ ~is_folder_unlocked(tree.files[file_id].folder_id) THEN "PermissionError"
    ELSE IF tree.files[file_id].vault_filename \notin cipher THEN "FileNotFoundError"
    ELSE IF "_create_secure_temp_file" \notin CryptoManagerMethods THEN "AttributeError"
    ELSE IF needs_rekeying(key_usage_count) THEN "SecurityError"
    ELSE IF calculate_file_hash(decrypt_file(file_id)) # tree.files[file_id].hash
         THEN "ValueError"
    ELSE "ok"

\* VaultTransaction._execute_operation: SecureVaultCore defines neither
\* _transactional_create_folder nor _transactional_delete_file
execute_operation_outcome(op, n) ==
    IF op.type = "add_file" THEN add_file_outcome(op.file_path, op.folder_id, n)
    ELSE IF op.type \in {"create_folder", "delete_file"} THEN "AttributeError"
    ELSE "ValueError"

\* the file ids a caller asks to extract
ExtractIds == {"f1"}

\* the operations a caller can stage
StagedOps ==
    {[type |-> "add_file", file_path |-> p, folder_id |-> "root"] : p \in Paths}
    \cup {[type |-> "delete_file", file_id |-> f] : f \in ExtractIds}

None == [kind |-> "None"]

(***************************************************************************)
(* Spec: SecureVaultCore and VaultTransaction                              *)
(***************************************************************************)

\* the record of the call that has just returned: what was called, when, on
\* which attempt list, and what it returned or raised
NoCall ==
    [op |-> "none", arg |-> << >>, at |-> 0, prior |-> << >>,
     kind |-> "none", value |-> None, remaining |-> 0]

AuthIdle ==
    /\ config = None
    /\ failed_attempts = << >>
    /\ history = << >>
    /\ clock = 0
    /\ slept = 0
    /\ nKeys = 0
    /\ curPw = "none"
    /\ config_file = None
    /\ persistFailed = FALSE
    /\ lastResult = NoCall

SSIdle ==
    /\ data_buffer = None
    /\ length = 0
    /\ lockOwner = 0
    /\ ssPc = << >>
    /\ ssRes = << >>
    /\ ssCleared = FALSE

\* SecureCryptoManager.__init__: the master key is loaded into its
\* container, no auxiliary key is registered, no thread is inside a call.
\* The retrievals made so far are those the container has counted.
CryptoIdle ==
    /\ master_loaded = TRUE
    /\ active_keys = EmptyMap
    /\ cmPc = << >>
    /\ cmRes = << >>
    /\ retrievals = max_usage_before_rekey - MaxKeyUsesLeft
    /\ cmCleared = FALSE

\* no large file is being encrypted or decrypted
StreamIdle ==
    /\ lfState = "idle"
    /\ lfSize = 0
    /\ lfFolderKey = "none"
    /\ lfInPos = 0
    /\ lfVault = None
    /\ lfRdPos = 0
    /\ lfOut = << >>
    /\ lfExc = "none"

\* no folder is unlocked, every vault file is as encrypt_file wrote it, the
\* output path does not exist and verify_integrity has not been called
FileIdle ==
    /\ unlocked_folders = {}
    /\ replaced = {}
    /\ outputPath = NoFile
    /\ issues = {}

\* SecureVaultCore.__init__ on an empty data directory: _load_filesystem
\* finds no file and creates and saves the default tree.  The crypto manager
\* it is given has MaxKeyUsesLeft retrievals of the master key left.
StoreInit ==
    /\ filesystem = default_filesystem
    /\ primary = save_filesystem(default_filesystem, NoFile, EmptyMap, 0, 0).primary
    /\ backups = save_filesystem(default_filesystem, NoFile, EmptyMap, 0, 0).backups
    /\ key_usage_count = max_usage_before_rekey - MaxKeyUsesLeft
    /\ lastExc = "none"
    /\ quarantine = EmptyMap
    /\ tempFile = NoFile
    /\ txBackups = [t \in Txs |-> NoFile]
    /\ cipherFiles = {}
    /\ nextId = 0
    /\ now = 0
    /\ txState = [t \in Txs |-> "initialized"]
    /\ txOps = [t \in Txs |-> << >>]
    /\ txIdx = [t \in Txs |-> 0]
    /\ txResults = [t \in Txs |-> << >>]
    /\ txBackupFiles = [t \in Txs |-> << >>]
    /\ opQueue = << >>
    /\ callerPc = [c \in Callers |-> "idle"]
    /\ response = [c \in Callers |-> None]
    /\ worker = "running"
    /\ lastCall = "init"

Init == StoreInit /\ AuthIdle /\ SSIdle /\ CryptoIdle /\ StreamIdle /\ FileIdle

txVars == <<txState, txOps, txIdx, txResults, txBackupFiles, txBackups>>
callVars == <<lastCall, lastExc>>
queueVars == <<opQueue, callerPc, response, worker>>
diskVars == <<primary, backups, quarantine, tempFile>>

\* one second passes
Tick ==
    /\ now < MaxClock
    /\ now' = now + 1
    /\ UNCHANGED <<filesystem, diskVars, cipherFiles, nextId, txVars, queueVars, callVars,
                   key_usage_count>>
    /\ UNCHANGED <<authVars, ssVars, cryptoVars, streamVars, fileVars>>

\* VaultTransaction.add_file / create_folder / delete_file: stage an operation
\* staging that runs an add_file at once instead of recording it
Stage_Eager(t, op) ==
    /\ txState[t] = "initialized"
    /\ Len(txOps[t]) < MaxOps
    /\ txOps' = [txOps EXCEPT ![t] = Append(@, op)]
    /\ filesystem' = IF op.type = "add_file" /\ op.file_path = "good"
                     THEN AddToTree(filesystem, "f5", "root") ELSE filesystem
    /\ UNCHANGED <<diskVars, cipherFiles, nextId, now, txState, txIdx,
                   txResults, txBackupFiles, txBackups, queueVars, callVars,
                   key_usage_count>>
    /\ UNCHANGED <<authVars, ssVars, cryptoVars, streamVars, fileVars>>

Stage(t, op) ==
    /\ txState[t] = "initialized"
    /\ Len(txOps[t]) < MaxOps
    /\ txOps' = [txOps EXCEPT ![t] = Append(@, op)]
    /\ UNCHANGED <<filesystem, diskVars, cipherFiles, nextId, now, txState, txIdx,
                   txResults, txBackupFiles, txBackups, queueVars, callVars,
                   key_usage_count>>
    /\ UNCHANGED <<authVars, ssVars, cryptoVars, streamVars, fileVars>>

\* commit(), up to the loop: the state check, 'executing' and _create_backup,
\* which writes the bare tree, sealed, to a transaction_backup_ file
CommitBegin(t) ==
    /\ txState[t] = "initialized"
    /\ IF needs_rekeying(key_usage_count)
       \* _create_backup raises: the outer handler sets 'failed' and re-raises
       THEN /\ txState' = [txState EXCEPT ![t] = "failed"]
            /\ lastExc' = "SecurityError"
            /\ UNCHANGED <<txBackups, txBackupFiles, key_usage_count>>
       ELSE /\ txState' = [txState EXCEPT ![t] = "executing"]
            /\ txBackups' = [txBackups EXCEPT
                                ![t] = encrypt_with_master_key(RawTree(filesystem))]
            /\ txBackupFiles' = [txBackupFiles EXCEPT ![t] = Append(@, t)]
            /\ key_usage_count' = key_usage_count + 1
            /\ lastExc' = "none"
    /\ lastCall' = "commit"
    /\ UNCHANGED <<filesystem, diskVars, cipherFiles, nextId, now, txOps, txIdx,
                   txResults, queueVars>>
    /\ UNCHANGED <<authVars, ssVars, cryptoVars, streamVars, fileVars>>

\* one iteration of the loop of commit() whose operation succeeds
CommitStepOk(t) ==
    /\ txState[t] = "executing"
    /\ txIdx[t] < Len(txOps[t])
    /\ LET op == txOps[t][txIdx[t] + 1] IN
        /\ execute_operation_outcome(op, key_usage_count) = "ok"
        /\ nextId < MaxFiles
        /\ LET id == FileIdSeq[nextId + 1] IN
            /\ filesystem' = AddToTree(filesystem, id, op.folder_id)
            /\ cipherFiles' = cipherFiles \cup {id}
            /\ txResults' = [txResults EXCEPT ![t] = Append(@, id)]
        /\ nextId' = nextId + 1
        /\ txIdx' = [txIdx EXCEPT ![t] = @ + 1]
    /\ key_usage_count' = key_usage_count + 1
    /\ lastCall' = "commit"
    /\ lastExc' = "none"
    /\ UNCHANGED <<diskVars, now, txState, txOps, txBackupFiles, txBackups, queueVars>>
    /\ UNCHANGED <<authVars, ssVars, cryptoVars, streamVars, fileVars>>

\* an iteration whose operation raises, with the exception swallowed: the
\* loop goes on to the next operation
CommitStepFail_Skip(t) ==
    /\ txState[t] = "executing"
    /\ txIdx[t] < Len(txOps[t])
    /\ execute_operation_outcome(txOps[t][txIdx[t] + 1], key_usage_count) # "ok"
    /\ txIdx' = [txIdx EXCEPT ![t] = @ + 1]
    /\ lastCall' = "commit"
    /\ lastExc' = "none"
    /\ UNCHANGED <<filesystem, diskVars, cipherFiles, nextId, now, txState, txOps,
                   txResults, txBackupFiles, txBackups, queueVars, key_usage_count>>
    /\ UNCHANGED <<authVars, ssVars, cryptoVars, streamVars, fileVars>>

\* one iteration whose operation raises: 'rolling_back', _rollback, 'failed',
\* TransactionError.  _rollback restores from _backup_files[-1] and then
\* removes the transaction's backup files; an exception of the restore is
\* logged and ends _rollback before the removal.
CommitStepFail(t) ==
    /\ txState[t] = "executing"
    /\ txIdx[t] < Len(txOps[t])
    /\ execute_operation_outcome(txOps[t][txIdx[t] + 1], key_usage_count) # "ok"
    /\ LET r == restore_from_backup(txBackups[t], filesystem, primary, backups, now,
                                    key_usage_count) IN
        IF txBackupFiles[t] = << >>
        THEN UNCHANGED <<filesystem, primary, backups, txBackups, key_usage_count>>
        ELSE /\ filesystem' = r.filesystem
             /\ primary' = r.primary
             /\ backups' = r.backups
             /\ key_usage_count' = r.count
             /\ txBackups' = IF r.ok THEN [txBackups EXCEPT ![t] = NoFile] ELSE txBackups
    /\ txState' = [txState EXCEPT ![t] = "failed"]
    /\ lastCall' = "commit"
    /\ lastExc' = "TransactionError"
    /\ UNCHANGED <<quarantine, tempFile, cipherFiles, nextId, now, txOps, txIdx, txResults,
                   txBackupFiles, queueVars>>
    /\ UNCHANGED <<authVars, ssVars, cryptoVars, streamVars, fileVars>>

\* the loop of commit() is over: 'committed', results returned
CommitFinish(t) ==
    /\ txState[t] = "executing"
    /\ txIdx[t] = Len(txOps[t])
    /\ txState' = [txState EXCEPT ![t] = "committed"]
    /\ lastCall' = "commit"
    /\ lastExc' = "none"
    /\ UNCHANGED <<filesystem, diskVars, cipherFiles, nextId, now, txOps, txIdx,
                   txResults, txBackupFiles, txBackups, queueVars, key_usage_count>>
    /\ UNCHANGED <<authVars, ssVars, cryptoVars, streamVars, fileVars>>

\* add_file / extract_file: _queue_operation puts the request on the queue
\* and the caller blocks on its result queue; the entries share one shape,
\* whose folder_id field an extract_file request does not use
CallAddFileTo(c, p, folder_id) ==
    /\ callerPc[c] = "idle"
    /\ opQueue' = Append(opQueue, [func |-> "add_file", arg |-> p, folder_id |-> folder_id,
                                    caller |-> c])
    /\ callerPc' = [callerPc EXCEPT ![c] = "waiting"]
    /\ UNCHANGED <<filesystem, diskVars, cipherFiles, nextId, now, txVars, response,
                   worker, callVars, key_usage_count>>
    /\ UNCHANGED <<authVars, ssVars, cryptoVars, streamVars, fileVars>>

\* add_file with the default folder_id
CallAddFile(c, p) ==
    /\ callerPc[c] = "idle"
    /\ opQueue' = Append(opQueue, [func |-> "add_file", arg |-> p, folder_id |-> "root",
                                    caller |-> c])
    /\ callerPc' = [callerPc EXCEPT ![c] = "waiting"]
    /\ UNCHANGED <<filesystem, diskVars, cipherFiles, nextId, now, txVars, response,
                   worker, callVars, key_usage_count>>
    /\ UNCHANGED <<authVars, ssVars, cryptoVars, streamVars, fileVars>>

CallExtractFile(c, f) ==
    /\ callerPc[c] = "idle"
    /\ opQueue' = Append(opQueue, [func |-> "extract_file", arg |-> f, folder_id |-> "root",
                                    caller |-> c])
    /\ callerPc' = [callerPc EXCEPT ![c] = "waiting"]
    /\ UNCHANGED <<filesystem, diskVars, cipherFiles, nextId, now, txVars, response,
                   worker, callVars, key_usage_count>>
    /\ UNCHANGED <<authVars, ssVars, cryptoVars, streamVars, fileVars>>

\* the None that cleanup() puts on the queue, in the shape of a request
StopSignal == [func |-> "None", arg |-> "none", folder_id |-> "none", caller |-> 0]

\* _process_operations: the worker takes the head of the queue; on the stop
\* signal it leaves its loop, otherwise it runs the request and puts
\* ('success', result) or ('error', e) on the caller's result queue
process_operations ==
    /\ worker = "running"
    /\ opQueue # << >>
    /\ LET req == Head(opQueue) IN
        IF req = StopSignal
        THEN /\ worker' = "stopped"
             /\ UNCHANGED <<filesystem, cipherFiles, nextId, key_usage_count, outputPath,
                            response, callVars>>
        ELSE IF req.func = "add_file"
           /\ add_file_outcome(req.arg, req.folder_id, key_usage_count) = "ok"
        THEN /\ nextId < MaxFiles
             /\ LET id == FileIdSeq[nextId + 1] IN
                 /\ filesystem' = AddToTree(filesystem, id, req.folder_id)
                 /\ cipherFiles' = cipherFiles \cup {id}
                 /\ response' = [response EXCEPT ![req.caller] =
                                    [kind |-> "success", value |-> id]]
             /\ nextId' = nextId + 1
             /\ key_usage_count' = key_usage_count + 1
             /\ lastCall' = "add_file"
             /\ lastExc' = "none"
             /\ UNCHANGED <<outputPath, worker>>
        ELSE IF req.func = "extract_file"
                /\ extract_file_outcome(filesystem, cipherFiles, req.arg) = "ok"
        \* os.replace(temp_output, output_path) after the hashes were compared
        THEN /\ outputPath' = [kind |-> "file", data |-> decrypt_file(req.arg)]
             /\ response' = [response EXCEPT ![req.caller] =
                                [kind |-> "success", value |-> "output_path"]]
             /\ key_usage_count' = key_usage_count + 1
             /\ lastCall' = "extract_file"
             /\ lastExc' = "none"
             /\ UNCHANGED <<filesystem, cipherFiles, nextId, worker>>
        ELSE LET exc == IF req.func = "add_file"
                        THEN add_file_outcome(req.arg, req.folder_id, key_usage_count)
                        ELSE extract_file_outcome(filesystem, cipherFiles, req.arg)
             IN
             /\ response' = [response EXCEPT ![req.caller] =
                                [kind |-> "error", value |-> exc]]
             /\ lastCall' = req.func
             /\ lastExc' = exc
             /\ UNCHANGED <<filesystem, cipherFiles, nextId, key_usage_count, outputPath,
                            worker>>
    /\ opQueue' = Tail(opQueue)
    /\ UNCHANGED <<diskVars, now, txVars, callerPc>>
    /\ UNCHANGED <<authVars, ssVars, cryptoVars, streamVars>>
    /\ UNCHANGED <<unlocked_folders, replaced, issues>>

\* _queue_operation, after result_queue.get(): return the result or raise
Return(c) ==
    /\ callerPc[c] = "waiting"
    /\ response[c] # None
    /\ callerPc' = [callerPc EXCEPT ![c] = "idle"]
    /\ response' = [response EXCEPT ![c] = None]
    /\ UNCHANGED <<filesystem, diskVars, cipherFiles, nextId, now, txVars, opQueue,
                   worker, callVars, key_usage_count>>
    /\ UNCHANGED <<authVars, ssVars, cryptoVars, streamVars, fileVars>>

\* a direct call of _save_filesystem (recovery_manager.py, the tests)
Save ==
    /\ LET saved == save_filesystem(filesystem, primary, backups, now, key_usage_count) IN
        /\ primary' = saved.primary
        /\ backups' = saved.backups
        /\ key_usage_count' = saved.count
        /\ lastExc' = saved.exc
    /\ lastCall' = "save"
    /\ UNCHANGED <<filesystem, quarantine, tempFile, cipherFiles, nextId, now, txVars, queueVars>>
    /\ UNCHANGED <<authVars, ssVars, cryptoVars, streamVars, fileVars>>

\* no commit() is running and no request is queued: the store is at rest
AtRest ==
    /\ \A t \in Txs : txState[t] # "executing"
    /\ opQueue = << >>

\* _load_filesystem, as run when the vault is opened
Load ==
    /\ AtRest
    /\ LET loaded == load_filesystem(filesystem, primary, backups, now, key_usage_count) IN
        /\ filesystem' = loaded.filesystem
        /\ primary' = loaded.primary
        /\ backups' = loaded.backups
        /\ key_usage_count' = loaded.count
        /\ lastExc' = loaded.exc
    /\ quarantine' = IF Quarantines(primary)
                     THEN [k \in DOMAIN quarantine \cup {now} |-> primary]
                     ELSE quarantine
    /\ lastCall' = IF lastCall = "save" /\ lastExc = "none" THEN "save_load"
                   ELSE IF lastCall = "corrupt" THEN "corrupt_load"
                   ELSE "load"
    /\ UNCHANGED <<tempFile, cipherFiles, nextId, now, txVars, queueVars>>
    /\ UNCHANGED <<authVars, ssVars, cryptoVars, streamVars, fileVars>>

\* what may be found in place of the primary file
DamagedContents ==
    {EmptyFile, Garbage,
     encrypt_with_master_key([Payload(default_filesystem) EXCEPT !.version = "1.0"]),
     encrypt_with_master_key([Payload(default_filesystem) EXCEPT !.checksum =
                                 sha256(json_dumps(AddToTree(default_filesystem, "f1", "root")))])}

\* the primary file is overwritten or truncated while the vault is closed
Corrupt(content) ==
    /\ AtRest
    /\ primary # content
    /\ primary' = content
    /\ lastCall' = "corrupt"
    /\ lastExc' = "none"
    /\ UNCHANGED <<filesystem, backups, quarantine, tempFile, cipherFiles, nextId, now, txVars, queueVars,
                   key_usage_count>>
    /\ UNCHANGED <<authVars, ssVars, cryptoVars, streamVars, fileVars>>

\* Spec: transactions committed from concurrent threads, and direct saves
Next ==
    \/ \E t \in Txs, op \in StagedOps : Stage(t, op)
    \/ \E t \in Txs : CommitBegin(t)
    \/ \E t \in Txs : CommitStepOk(t)
    \/ \E t \in Txs : CommitStepFail(t)
    \/ \E t \in Txs : CommitFinish(t)
    \/ Save

Spec == Init /\ [][Next]_vars

\* SpecLoad: the persisted tree over time: saves, damage, reopening
NextLoad ==
    \/ Tick
    \/ \E p \in Paths : CallAddFile(1, p)
    \/ process_operations
    \/ Return(1)
    \/ Save
    \/ Load
    \/ \E content \in DamagedContents : Corrupt(content)

SpecLoad == Init /\ [][NextLoad]_vars

\* SpecQueue: callers of add_file/extract_file, the worker, and one
\* transaction committed by another thread
NextQueue ==
    \/ \E c \in Callers, p \in Paths : CallAddFile(c, p)
    \/ \E c \in Callers, f \in ExtractIds : CallExtractFile(c, f)
    \/ process_operations
    \/ \E c \in Callers : Return(c)
    \/ \E op \in StagedOps : Stage(1, op)
    \/ CommitBegin(1)
    \/ CommitStepOk(1)
    \/ CommitStepFail(1)
    \/ CommitFinish(1)

SpecQueue == Init /\ [][NextQueue]_vars

(***************************************************************************)
(* auth.py: the key-wrapping hierarchy                                     *)
(***************************************************************************)

\* bounds of the credential model
MaxKeys == 3
MaxTime == 1510
MaxAttempts == 7
MaxSlept == 1

\* three passwords that satisfy the strength policy and one that does not
Passwords == {"pwA", "pwB", "pwC", "weak"}

\* answers are strings, written as sequences of characters
AnswerLists ==
    { << <<"a", "b">> >>,
      << <<"a">>, <<"b">> >>,
      << <<"A">>, <<"b">> >>,
      << <<"a">>, <<"c">> >> }

\* the recovery questions a vault is set up with: none, or two answers
QuestionSets == {<< >>, << <<"a">>, <<"b">> >>}

\* Fernet.generate_key(), secrets.token_bytes, secrets.token_hex: the n-th
\* draw of randomness, by the role it is used in
Random(n, role) == [gen |-> n, role |-> role, idx |-> 0]
RandomAt(n, role, i) == [gen |-> n, role |-> role, idx |-> i]

\* RecoveryProtection.max_attempts and RecoveryProtection.lockout_time
max_attempts == 3
lockout_time == 600

\* Fernet(key).encrypt(data) and Fernet(key).decrypt(token)
Fernet_encrypt(key, data) == [key |-> key, data |-> data]
Fernet_can_decrypt(key, token) == token.key = key

\* bcrypt.hashpw(secret, salt) and bcrypt.checkpw(secret, hash)
bcrypt_hashpw(secret, salt) == [alg |-> "bcrypt", salt |-> salt, secret |-> secret]
bcrypt_checkpw(secret, h) == bcrypt_hashpw(secret, h.salt) = h

\* ''.join(answers)
RECURSIVE join(_)
join(answers) ==
    IF answers = << >> THEN << >> ELSE Head(answers) \o join(Tail(answers))

\* _derive_key_from_password: PBKDF2-HMAC-SHA256 of the password
derive_key_from_password(password, salt) ==
    [kdf |-> "pbkdf2-sha256", salt |-> salt, secret |-> password]

\* _derive_strong_recovery_key: PBKDF2-HMAC-SHA512 of sha384(answers_string)
derive_strong_recovery_key(answers_string, salt) ==
    [kdf |-> "pbkdf2-sha512", salt |-> salt, secret |-> <<"sha384", answers_string>>]

\* _encrypt_with_password: salt + Fernet(derived key).encrypt(data)
encrypt_with_password(data, password, salt) ==
    [kind |-> "wrapped", salt |-> salt,
     token |-> Fernet_encrypt(derive_key_from_password(password, salt), data)]

\* _encrypt_with_questions: the NO_RECOVERY_SETUP marker when there are no
\* questions, else salt + Fernet(key derived from the joined answers)
encrypt_with_questions(data, recovery_questions, salt) ==
    IF recovery_questions = << >>
    THEN [kind |-> "NO_RECOVERY_SETUP", salt |-> salt]
    ELSE [kind |-> "wrapped", salt |-> salt,
          token |-> Fernet_encrypt(
                        derive_strong_recovery_key(join(recovery_questions), salt), data)]

\* the stored per-question records: bcrypt of answer + salt
answer_records(recovery_questions, n) ==
    [i \in DOMAIN recovery_questions |->
        [question |-> i,
         salt |-> RandomAt(n, "answer_salt", i),
         answer_hash |-> bcrypt_hashpw(<<recovery_questions[i], RandomAt(n, "answer_salt", i)>>,
                                       RandomAt(n, "bcrypt_salt", i))]]

\* create_master_password: the configuration record it stores; n numbers the
\* randomness it draws
create_master_password(password, password_hint, recovery_questions, n) ==
    LET master_key == Random(n, "master_key")
        master_password_encoder_key == Random(n, "password_encoder")
        recovery_encoder_key == Random(n, "recovery_encoder")
    IN [master_password_hash |-> bcrypt_hashpw(password, Random(n, "bcrypt_salt")),
        encrypted_master_key |-> Fernet_encrypt(master_password_encoder_key, master_key),
        encrypted_recovery_key |-> Fernet_encrypt(recovery_encoder_key, master_key),
        encrypted_master_password_encoder |->
            encrypt_with_password(master_password_encoder_key, password, Random(n, "password_salt")),
        encrypted_recovery_encoder |->
            encrypt_with_questions(recovery_encoder_key, recovery_questions, Random(n, "recovery_salt")),
        password_hint |-> password_hint,
        recovery_questions |-> answer_records(recovery_questions, n),
        user_id |-> Random(n, "user_id"),
        last_password_change |-> "None",
        recovery_setup_date |-> "None"]

\* _validate_password_strength on the passwords of the model
validate_password_strength(password) == password # "weak"

\* verify_master_password
verify_master_password(cfg, password) ==
    bcrypt_checkpw(password, cfg.master_password_hash)

\* get_master_key: the key, or the ValueError it raises
get_master_key(cfg, password) ==
    IF ~verify_master_password(cfg, password)
    THEN [kind |-> "ValueError", message |-> "wrong master password", value |-> None]
    ELSE LET wrapped == cfg.encrypted_master_password_encoder
             key == derive_key_from_password(password, wrapped.salt)
         IN IF wrapped.kind = "wrapped" /\ Fernet_can_decrypt(key, wrapped.token)
                 /\ Fernet_can_decrypt(wrapped.token.data, cfg.encrypted_master_key)
            THEN [kind |-> "ok", message |-> "", value |-> cfg.encrypted_master_key.data]
            ELSE [kind |-> "ValueError", message |-> "wrong password or corrupted data",
                  value |-> None]

\* the password-path wrapping left as it was
change_master_password_KeepEncoder(cfg, master_key, new_password, new_password_hint, n) ==
    LET new_master_password_encoder_key == Random(n, "password_encoder") IN
    [cfg EXCEPT
        !.master_password_hash = bcrypt_hashpw(new_password, Random(n, "bcrypt_salt")),
        !.encrypted_master_key = Fernet_encrypt(new_master_password_encoder_key, master_key),
        !.password_hint = new_password_hint,
        !.last_password_change = "set"]

\* change_master_password after get_master_key(old_password) has returned
\* master_key: the updated configuration record
change_master_password(cfg, master_key, new_password, new_password_hint, n) ==
    LET new_master_password_encoder_key == Random(n, "password_encoder") IN
    [cfg EXCEPT
        !.master_password_hash = bcrypt_hashpw(new_password, Random(n, "bcrypt_salt")),
        !.encrypted_master_key = Fernet_encrypt(new_master_password_encoder_key, master_key),
        !.encrypted_master_password_encoder =
            encrypt_with_password(new_master_password_encoder_key, new_password,
                                  Random(n, "password_salt")),
        !.password_hint = new_password_hint,
        !.last_password_change = "set"]

\* setup_recovery_questions that also resets the password hint
setup_recovery_questions_ResetHint(cfg, master_key, recovery_questions, n) ==
    LET new_recovery_encoder_key == Random(n, "recovery_encoder") IN
    [cfg EXCEPT
        !.encrypted_recovery_key = Fernet_encrypt(new_recovery_encoder_key, master_key),
        !.encrypted_recovery_encoder =
            encrypt_with_questions(new_recovery_encoder_key, recovery_questions,
                                   Random(n, "recovery_salt")),
        !.recovery_questions = answer_records(recovery_questions, n),
        !.recovery_setup_date = "set",
        !.password_hint = ""]

\* setup_recovery_questions after get_master_key(password) has returned
\* master_key: the updated configuration record
setup_recovery_questions(cfg, master_key, recovery_questions, n) ==
    LET new_recovery_encoder_key == Random(n, "recovery_encoder") IN
    [cfg EXCEPT
        !.encrypted_recovery_key = Fernet_encrypt(new_recovery_encoder_key, master_key),
        !.encrypted_recovery_encoder =
            encrypt_with_questions(new_recovery_encoder_key, recovery_questions,
                                   Random(n, "recovery_salt")),
        !.recovery_questions = answer_records(recovery_questions, n),
        !.recovery_setup_date = "set"]

\* the record of an auth call that has just returned
Outcome(op, arg, kind, value) ==
    [op |-> op, arg |-> arg, at |-> clock, prior |-> failed_attempts,
     kind |-> kind, value |-> value, remaining |-> 0]

lockoutVars == <<failed_attempts, history, clock, slept>>

\* create_master_password(password, "hint", questions) on first run; saved
\* says whether _save_config could write the file
Create(password, questions, saved) ==
    /\ config = None
    /\ nKeys < MaxKeys
    /\ IF ~validate_password_strength(password)
       THEN /\ lastResult' = Outcome("create_master_password", <<password>>, "ValueError", None)
            /\ UNCHANGED <<config, config_file, nKeys, curPw, persistFailed>>
       ELSE LET new == create_master_password(password, "hint", questions, nKeys + 1) IN
            /\ config' = new
            /\ nKeys' = nKeys + 1
            /\ IF saved
               THEN /\ config_file' = new
                    /\ curPw' = password
                    /\ lastResult' = Outcome("create_master_password", <<password>>, "ok",
                                             new.encrypted_master_key.data)
                    /\ UNCHANGED persistFailed
               ELSE /\ persistFailed' = TRUE
                    /\ lastResult' = Outcome("create_master_password", <<password>>,
                                             "OSError", None)
                    /\ UNCHANGED <<config_file, curPw>>
    /\ UNCHANGED lockoutVars
    /\ UNCHANGED <<storeVars, ssVars, cryptoVars, streamVars, fileVars>>

\* change_master_password(old_password, new_password, "hint")
ChangePassword(old_password, new_password, saved) ==
    /\ config # None
    /\ nKeys < MaxKeys
    /\ LET r == get_master_key(config, old_password) IN
       IF r.kind # "ok"
       THEN /\ lastResult' = Outcome("change_master_password", <<old_password, new_password>>,
                                     r.kind, None)
            /\ UNCHANGED <<config, config_file, nKeys, curPw, persistFailed>>
       ELSE LET new == change_master_password(config, r.value, new_password, "hint",
                                              nKeys + 1) IN
            /\ config' = new
            /\ nKeys' = nKeys + 1
            /\ IF saved
               THEN /\ config_file' = new
                    /\ curPw' = new_password
                    /\ lastResult' = Outcome("change_master_password",
                                             <<old_password, new_password>>, "ok", r.value)
                    /\ UNCHANGED persistFailed
               ELSE /\ persistFailed' = TRUE
                    /\ lastResult' = Outcome("change_master_password",
                                             <<old_password, new_password>>, "OSError", None)
                    /\ UNCHANGED <<config_file, curPw>>
    /\ UNCHANGED lockoutVars
    /\ UNCHANGED <<storeVars, ssVars, cryptoVars, streamVars, fileVars>>

\* setup_recovery_questions(password, questions)
SetupRecovery(password, questions, saved) ==
    /\ config # None
    /\ nKeys < MaxKeys
    /\ LET r == get_master_key(config, password) IN
       IF r.kind # "ok"
       THEN /\ lastResult' = Outcome("setup_recovery_questions", <<password>>, r.kind, None)
            /\ UNCHANGED <<config, config_file, nKeys, persistFailed>>
       ELSE LET new == setup_recovery_questions(config, r.value, questions, nKeys + 1) IN
            /\ config' = new
            /\ nKeys' = nKeys + 1
            /\ IF saved
               THEN /\ config_file' = new
                    /\ lastResult' = Outcome("setup_recovery_questions", <<password>>,
                                             "ok", None)
                    /\ UNCHANGED persistFailed
               ELSE /\ persistFailed' = TRUE
                    /\ lastResult' = Outcome("setup_recovery_questions", <<password>>,
                                             "OSError", None)
                    /\ UNCHANGED config_file
    /\ UNCHANGED curPw
    /\ UNCHANGED lockoutVars
    /\ UNCHANGED <<storeVars, ssVars, cryptoVars, streamVars, fileVars>>

\* a get_master_key that, like recover_master_key, clears the recovery
\* attempts of the credential when it succeeds
GetMasterKey_Clears(password) ==
    /\ lastResult' = IF config = None
                     THEN Outcome("get_master_key", <<password>>, "RuntimeError", None)
                     ELSE LET r == get_master_key(config, password) IN
                          Outcome("get_master_key", <<password>>, r.kind, r.value)
    /\ failed_attempts' = IF lastResult'.kind = "ok" THEN << >> ELSE failed_attempts
    /\ history' = IF lastResult'.kind = "ok" THEN << >> ELSE history
    /\ UNCHANGED <<config, config_file, nKeys, curPw, persistFailed, clock, slept>>
    /\ UNCHANGED <<storeVars, ssVars, cryptoVars, streamVars, fileVars>>

\* a call of get_master_key(password); on first run verify_master_password
\* raises RuntimeError
GetMasterKey(password) ==
    /\ lastResult' = IF config = None
                     THEN Outcome("get_master_key", <<password>>, "RuntimeError", None)
                     ELSE LET r == get_master_key(config, password) IN
                          Outcome("get_master_key", <<password>>, r.kind, r.value)
    /\ UNCHANGED <<config, config_file, nKeys, curPw, persistFailed>>
    /\ UNCHANGED lockoutVars
    /\ UNCHANGED <<storeVars, ssVars, cryptoVars, streamVars, fileVars>>

\* a new SecureAuthManager: _load_config reads the file, {} when there is none
Restart ==
    /\ config' = config_file
    /\ lastResult' = NoCall
    /\ UNCHANGED <<config_file, nKeys, curPw, persistFailed>>
    /\ UNCHANGED lockoutVars
    /\ UNCHANGED <<storeVars, ssVars, cryptoVars, streamVars, fileVars>>

NextAuth ==
    \/ \E p \in Passwords, q \in QuestionSets, saved \in BOOLEAN : Create(p, q, saved)
    \/ \E old \in Passwords, new \in Passwords, saved \in BOOLEAN :
           ChangePassword(old, new, saved)
    \/ \E p \in Passwords, q \in QuestionSets, saved \in BOOLEAN :
           SetupRecovery(p, q, saved)
    \/ \E p \in Passwords : GetMasterKey(p)
    \/ Restart

SpecAuth == Init /\ [][NextAuth]_vars

(***************************************************************************)
(* auth.py: RecoveryProtection and the recovery path                       *)
(***************************************************************************)

\* the amounts of time that pass between calls
TickSteps == {300, 600}

SeqMin(q) == CHOOSE x \in Range(q) : \A y \in Range(q) : x <= y
SeqMax(q) == CHOOSE x \in Range(q) : \A y \in Range(q) : y <= x

\* the history cut to [-(max_attempts - 1):]
record_attempt_KeepTwo(attempts, t) ==
    LET appended == Append(attempts, t) IN
    IF Len(appended) > max_attempts * 2
    THEN SubSeq(appended, Len(appended) - max_attempts + 2, Len(appended))
    ELSE appended

\* RecoveryProtection.record_attempt at time t
record_attempt(attempts, t) ==
    LET appended == Append(attempts, t) IN
    IF Len(appended) > max_attempts * 2
    THEN SubSeq(appended, Len(appended) - max_attempts + 1, Len(appended))
    ELSE appended

\* RecoveryProtection.is_locked_out at time t
is_locked_out(attempts, t) ==
    /\ attempts # << >>
    /\ Cardinality({i \in DOMAIN attempts : t - attempts[i] < lockout_time}) >= max_attempts

\* RecoveryProtection.get_remaining_time at time t
get_remaining_time(attempts, t) ==
    IF attempts = << >> THEN 0
    ELSE LET oldest_recent_attempt == SeqMin(attempts)
             remaining == lockout_time - (t - oldest_recent_attempt)
         IN IF remaining > 0 THEN remaining ELSE 0

\* recover_master_key without clear_attempts on success
recover_master_key_NoClear(cfg, attempts, t, answers) ==
    IF is_locked_out(attempts, t)
    THEN [kind |-> "PermissionError", value |-> None,
          remaining |-> get_remaining_time(attempts, t),
          attempts |-> attempts, elapsed |-> 0]
    ELSE LET wrapped == cfg.encrypted_recovery_encoder IN
         IF wrapped.kind = "NO_RECOVERY_SETUP"
         THEN [kind |-> "ValueError", value |-> None, remaining |-> 0,
               attempts |-> record_attempt(record_attempt(attempts, t), t), elapsed |-> 1]
         ELSE IF /\ Fernet_can_decrypt(
                        derive_strong_recovery_key(join(answers), wrapped.salt), wrapped.token)
                 /\ Fernet_can_decrypt(wrapped.token.data, cfg.encrypted_recovery_key)
         THEN [kind |-> "ok", value |-> cfg.encrypted_recovery_key.data, remaining |-> 0,
               attempts |-> attempts, elapsed |-> 0]
         ELSE [kind |-> "ValueError", value |-> None, remaining |-> 0,
               attempts |-> record_attempt(attempts, t), elapsed |-> 1]

\* recover_master_key at time t: what it raises or returns, the attempt list
\* it leaves and the time the call takes (the failure path sleeps up to the
\* 1 second floor)
recover_master_key(cfg, attempts, t, answers) ==
    IF is_locked_out(attempts, t)
    THEN [kind |-> "PermissionError", value |-> None,
          remaining |-> get_remaining_time(attempts, t),
          attempts |-> attempts, elapsed |-> 0]
    ELSE LET wrapped == cfg.encrypted_recovery_encoder IN
         IF wrapped.kind = "NO_RECOVERY_SETUP"
         \* recorded before the raise and again by the except clause
         THEN [kind |-> "ValueError", value |-> None, remaining |-> 0,
               attempts |-> record_attempt(record_attempt(attempts, t), t), elapsed |-> 1]
         ELSE IF /\ Fernet_can_decrypt(
                        derive_strong_recovery_key(join(answers), wrapped.salt), wrapped.token)
                 /\ Fernet_can_decrypt(wrapped.token.data, cfg.encrypted_recovery_key)
         THEN [kind |-> "ok", value |-> cfg.encrypted_recovery_key.data, remaining |-> 0,
               attempts |-> << >>, elapsed |-> 0]
         ELSE [kind |-> "ValueError", value |-> None, remaining |-> 0,
               attempts |-> record_attempt(attempts, t), elapsed |-> 1]

\* str.lower() on the characters of the model
LowerChar(c) == IF c = "A" THEN "a" ELSE IF c = "B" THEN "b" ELSE c
lower(str) == [i \in DOMAIN str |-> LowerChar(str[i])]

\* verify_recovery_answers at time t: the result and the attempt list it
\* leaves; answers[i] is the answer of the i-th (question, answer) pair
verify_recovery_answers(cfg, attempts, t, answers) ==
    LET stored_questions == cfg.recovery_questions IN
    IF Len(answers) # Len(stored_questions) THEN [result |-> FALSE, attempts |-> attempts]
    ELSE IF is_locked_out(attempts, t) THEN [result |-> FALSE, attempts |-> attempts]
    ELSE LET result == \A i \in DOMAIN answers :
                 bcrypt_checkpw(<<lower(answers[i]), stored_questions[i].salt>>,
                                stored_questions[i].answer_hash)
         IN [result |-> result,
             attempts |-> IF result THEN attempts ELSE record_attempt(attempts, t)]

\* the vault after create_master_password("pwA", hint, questions)
LockoutInit ==
    /\ \E q \in QuestionSets : config = create_master_password("pwA", "hint", q, 1)
    /\ failed_attempts = << >>
    /\ history = << >>
    /\ clock = 0
    /\ slept = 0
    /\ nKeys = 1
    /\ curPw = "pwA"
    /\ config_file = config
    /\ persistFailed = FALSE
    /\ lastResult = NoCall

\* the attempts a call has added to the stored list
Added(before, after, t) ==
    IF after = << >> THEN << >>
    ELSE IF after = before THEN << >>
    ELSE IF after = record_attempt(before, t) THEN <<t>>
    ELSE <<t, t>>

TickAuth(d) ==
    /\ clock + d <= MaxTime
    /\ clock' = clock + d
    /\ lastResult' = NoCall
    /\ UNCHANGED <<config, failed_attempts, history, slept, nKeys, curPw, config_file, persistFailed>>
    /\ UNCHANGED <<storeVars, ssVars, cryptoVars, streamVars, fileVars>>

\* a call of recover_master_key(answers)
Recover(answers) ==
    LET r == recover_master_key(config, failed_attempts, clock, answers) IN
    /\ Len(history \o Added(failed_attempts, r.attempts, clock)) <= MaxAttempts
    /\ clock + r.elapsed <= MaxTime
    /\ slept + r.elapsed <= MaxSlept
    /\ slept' = slept + r.elapsed
    /\ failed_attempts' = r.attempts
    /\ history' = IF r.kind = "ok" THEN << >>
                  ELSE history \o Added(failed_attempts, r.attempts, clock)
    /\ clock' = clock + r.elapsed
    /\ lastResult' = [op |-> "recover_master_key", arg |-> answers, at |-> clock,
                      prior |-> failed_attempts, kind |-> r.kind, value |-> r.value,
                      remaining |-> r.remaining]
    /\ UNCHANGED <<config, nKeys, curPw, config_file, persistFailed>>
    /\ UNCHANGED <<storeVars, ssVars, cryptoVars, streamVars, fileVars>>

\* a call of verify_recovery_answers(answers)
VerifyAnswers(answers) ==
    LET r == verify_recovery_answers(config, failed_attempts, clock, answers) IN
    /\ Len(history \o Added(failed_attempts, r.attempts, clock)) <= MaxAttempts
    /\ failed_attempts' = r.attempts
    /\ history' = history \o Added(failed_attempts, r.attempts, clock)
    /\ lastResult' = [op |-> "verify_recovery_answers", arg |-> answers, at |-> clock,
                      prior |-> failed_attempts,
                      kind |-> IF r.result THEN "True" ELSE "False",
                      value |-> None, remaining |-> 0]
    /\ UNCHANGED <<config, clock, slept, nKeys, curPw, config_file, persistFailed>>
    /\ UNCHANGED <<storeVars, ssVars, cryptoVars, streamVars, fileVars>>

NextLockout ==
    \/ \E d \in TickSteps : TickAuth(d)
    \/ \E a \in AnswerLists : Recover(a)
    \/ \E a \in AnswerLists : VerifyAnswers(a)

InitLockout == StoreInit /\ LockoutInit /\ SSIdle /\ CryptoIdle /\ StreamIdle /\ FileIdle

SpecLockout == InitLockout /\ [][NextLockout]_vars

(***************************************************************************)
(* Properties of the store                                                 *)
(***************************************************************************)

\* the tree a sealed file decodes to
PersistedTree(content) ==
    IF CanDecrypt(content) /\ content.body.kind \in {"payload", "raw"}
    THEN json_loads(content.body.data) ELSE None

\* the tree as it was when commit() of t took its snapshot
SnapshotTree(t) == PersistedTree(txBackups[t])

\* every file added to the tree since the snapshot of t was added by t
OnlyWriter(t) ==
    DOMAIN filesystem'.files \ DOMAIN SnapshotTree(t).files \subseteq Range(txResults[t])

\* C1: when a staged operation fails and commit() raises, the in-memory tree
\* equals the tree as it was immediately before commit(): the operations the
\* transaction had already executed are undone.
C1_FailedCommitRestoresTree ==
    [][\A t \in Txs :
        (txState[t] = "executing" /\ txState'[t] = "failed" /\ OnlyWriter(t))
            => filesystem' = SnapshotTree(t)]_vars

\* C2: when commit() returns successfully the transaction is 'committed' and
\* the primary file decodes to exactly the current in-memory tree.
C2_CommitPersistsTree ==
    [][\A t \in Txs :
        (txState[t] = "executing" /\ txState'[t] # "executing" /\ txState'[t] # "failed")
            => (txState'[t] = "committed" /\ PersistedTree(primary') = filesystem')]_vars

\* transaction u has executed an operation and has another one to execute
MidCommit(u) ==
    txState[u] = "executing" /\ 0 < txIdx[u] /\ txIdx[u] < Len(txOps[u])

\* this step executes an operation of transaction t
ExecutesOp(t) ==
    txState[t] = "executing" /\ (txIdx'[t] # txIdx[t] \/ txState'[t] = "failed")

\* this step executes a queued add_file or extract_file
ExecutesQueued == Len(opQueue') < Len(opQueue)

\* C3: no operation of one transaction executes between two operations of
\* another, and no queued add_file/extract_file executes between two
\* operations of a committing transaction.
C3_NoInterleaving ==
    [][/\ \A t \in Txs : ExecutesOp(t) => \A u \in Txs \ {t} : ~MidCommit(u)
       /\ ExecutesQueued => \A u \in Txs : ~MidCommit(u)]_vars

\* C4: a _save_filesystem() that returns, followed by _load_filesystem()
\* with the same master key and the primary file as saved, leaves the
\* in-memory tree equal to the tree that was saved.
C4_SaveLoadRoundTrip ==
    [][(lastCall = "save" /\ lastExc = "none" /\ lastCall' = "save_load")
          => filesystem' = filesystem]_vars

\* C5: whatever the primary file holds, _load_filesystem() returns without
\* raising and leaves a tree with a 'files' map and a 'folders' map that
\* contains the root folder.
C5_LoadReturnsValidTree ==
    lastCall \in {"load", "save_load", "corrupt_load"} =>
        /\ lastExc = "none"
        /\ {"files", "folders"} \subseteq DOMAIN filesystem
        /\ "root" \in DOMAIN filesystem.folders
        /\ filesystem.folders["root"].id = "root"

(***************************************************************************)
(* Properties of the recovery lockout                                      *)
(***************************************************************************)

\* C7: whenever recovery is locked out, recover_master_key fails with the
\* Locked error without attempting an unwrap (no attempt is recorded), and
\* the remaining time it reports is greater than 0 and at most 600 seconds.
C7_LockedReportsRemainingTime ==
    is_locked_out(failed_attempts, clock) =>
        \A a \in AnswerLists :
            LET r == recover_master_key(config, failed_attempts, clock, a) IN
            /\ r.kind = "PermissionError"
            /\ r.attempts = failed_attempts
            /\ 0 < r.remaining
            /\ r.remaining <= lockout_time

\* the answers the recovery path of LockoutInit is configured with
ConfiguredAnswers == << <<"a">>, <<"b">> >>

RecoveryConfigured == config.encrypted_recovery_encoder.kind = "wrapped"

\* the call that has just returned was recover_master_key with the correct
\* answers, made at least 600 seconds after the most recent recorded attempt
RecoveredAfterWindow ==
    /\ lastResult.op = "recover_master_key"
    /\ lastResult.arg = ConfiguredAnswers
    /\ RecoveryConfigured
    /\ lastResult.prior # << >>
    /\ lastResult.at - SeqMax(lastResult.prior) >= lockout_time

\* C8: once 600 seconds have passed since the most recent recorded attempt,
\* recover_master_key with the correct answers succeeds, returns the master
\* key and leaves the attempt history empty (not locked, remaining time 0).
C8_RecoveryAfterWindow ==
    RecoveredAfterWindow =>
        /\ lastResult.kind = "ok"
        /\ lastResult.value = Random(1, "master_key")
        /\ failed_attempts = << >>
        /\ ~is_locked_out(failed_attempts, clock)
        /\ get_remaining_time(failed_attempts, clock) = 0

\* the credential had been locked by three attempts, the window elapsed and
\* the recovery with the correct answers has returned the key
C8_Witness ==
    /\ RecoveredAfterWindow
    /\ lastResult.kind = "ok"
    /\ is_locked_out(lastResult.prior, SeqMax(lastResult.prior))

\* the attempts recorded since the last clear that lie within the window
RecentRecorded == {i \in DOMAIN history : clock - history[i] < lockout_time}

\* C9: is_locked_out is true exactly when at least 3 of the attempts recorded
\* since the history was last cleared lie within the last 600 seconds,
\* whatever record_attempt has cut from the stored list.
C9_LockedIffThreeRecent ==
    is_locked_out(failed_attempts, clock) <=> Cardinality(RecentRecorded) >= max_attempts

\* the stored list has been cut and the credential is locked
C9_Witness ==
    /\ Len(failed_attempts) < Len(history)
    /\ is_locked_out(failed_attempts, clock)

(***************************************************************************)
(* Properties of the password path                                         *)
(***************************************************************************)

\* C6: after create_master_password and any sequence of successful
\* change_master_password and setup_recovery_questions calls, get_master_key
\* with the current password returns the master key generated at creation,
\* and get_master_key with any other password fails.
C6_CurrentPasswordUnlocks ==
    (config # None /\ ~persistFailed) =>
        /\ \A p \in Passwords :
              LET r == get_master_key(config, p) IN
              IF p = curPw
              THEN r.kind = "ok" /\ r.value = Random(1, "master_key")
              ELSE r.kind = "ValueError"
        /\ lastResult.op = "get_master_key" =>
              IF lastResult.arg = <<curPw>>
              THEN lastResult.kind = "ok" /\ lastResult.value = Random(1, "master_key")
              ELSE lastResult.kind = "ValueError"

\* the password has been changed, the recovery questions set up again, and
\* get_master_key with the new password has returned the key
C6_Witness ==
    /\ config # None
    /\ ~persistFailed
    /\ config.last_password_change = "set"
    /\ config.recovery_setup_date = "set"
    /\ curPw = "pwB"
    /\ lastResult.op = "get_master_key"
    /\ lastResult.arg = <<"pwB">>
    /\ lastResult.kind = "ok"

(***************************************************************************)
(* securestring.py: SecureString                                           *)
(***************************************************************************)

\* bounds of the SecureString model
MaxThreads == 2
MaxData == 2

Threads == 1 .. MaxThreads

\* the bytes a SecureString is constructed from: b'', b'A', b'A\xc8', ...
\* (an ASCII letter and a byte that is not valid UTF-8 on its own)
DataInputs == {[i \in 1 .. n |-> IF i % 2 = 1 THEN 65 ELSE 200] : n \in 0 .. MaxData}

\* bytes.decode('utf-8', errors='replace') on the bytes of the model
decode(raw) ==
    [i \in DOMAIN raw |-> IF raw[i] < 128 THEN <<"U+", raw[i]>> ELSE <<"U+", 65533>>]

\* ctypes.create_string_buffer(data)
create_string_buffer(data) == [kind |-> "buffer", raw |-> data]

SSResult(op, kind, value, n, after) ==
    [op |-> op, kind |-> kind, value |-> value, n |-> n, after |-> after]

\* the body of retrieve without the check for a cleared buffer
retrieve_NoCheck(buf, len) ==
    IF buf = None
    THEN [kind |-> "ok", value |-> << >>]
    ELSE [kind |-> "ok", value |-> SubSeq(buf.raw, 1, len)]

\* the body of retrieve, run with the lock held
retrieve(buf, len) ==
    IF buf = None
    THEN [kind |-> "ValueError", value |-> << >>]
    ELSE [kind |-> "ok", value |-> SubSeq(buf.raw, 1, len)]

\* the body of retrieve_string, run with the lock held
retrieve_string(buf, len) ==
    IF buf = None
    THEN [kind |-> "ValueError", value |-> << >>]
    ELSE [kind |-> "ok", value |-> decode(SubSeq(buf.raw, 1, len))]

SSPosition(method, step, after) == [method |-> method, step |-> step, after |-> after]
SSIdlePosition == SSPosition("none", "idle", FALSE)

\* SecureString(data) for some bytes data
SSInit ==
    /\ \E data \in DataInputs :
          /\ data_buffer = create_string_buffer(data)
          /\ length = Len(data)
    /\ lockOwner = 0
    /\ ssPc = [t \in Threads |-> SSIdlePosition]
    /\ ssRes = [t \in Threads |-> SSResult("none", "none", << >>, 0, FALSE)]
    /\ ssCleared = FALSE

LockedMethods == {"retrieve", "retrieve_string", "secure_clear"}

\* thread t calls a method that takes the lock
SSCall(t, method) ==
    /\ ssPc[t].step = "idle"
    /\ ssPc' = [ssPc EXCEPT ![t] = SSPosition(method, "acquire", ssCleared)]
    /\ UNCHANGED <<data_buffer, length, lockOwner, ssRes, ssCleared>>
    /\ UNCHANGED <<storeVars, authVars, cryptoVars, streamVars, fileVars>>

\* __len__: reads _length without the lock
SSLen(t) ==
    /\ ssPc[t].step = "idle"
    /\ ssRes' = [ssRes EXCEPT ![t] = SSResult("len", "ok", << >>, length, ssCleared)]
    /\ UNCHANGED <<data_buffer, length, lockOwner, ssPc, ssCleared>>
    /\ UNCHANGED <<storeVars, authVars, cryptoVars, streamVars, fileVars>>

\* with self._lock: the RLock is free or already held by t
SSAcquire(t) ==
    /\ ssPc[t].step = "acquire"
    /\ lockOwner \in {0, t}
    /\ lockOwner' = t
    /\ ssPc' = [ssPc EXCEPT ![t].step = "body"]
    /\ UNCHANGED <<data_buffer, length, ssRes, ssCleared>>
    /\ UNCHANGED <<storeVars, authVars, cryptoVars, streamVars, fileVars>>

\* retrieve and retrieve_string with the lock held, and the release
SSRetrieve(t) ==
    /\ ssPc[t].step = "body"
    /\ ssPc[t].method \in {"retrieve", "retrieve_string"}
    /\ LET r == IF ssPc[t].method = "retrieve"
                THEN retrieve(data_buffer, length)
                ELSE retrieve_string(data_buffer, length)
       IN ssRes' = [ssRes EXCEPT
                       ![t] = SSResult(ssPc[t].method, r.kind, r.value, 0, ssPc[t].after)]
    /\ lockOwner' = 0
    /\ ssPc' = [ssPc EXCEPT ![t] = SSIdlePosition]
    /\ UNCHANGED <<data_buffer, length, ssCleared>>
    /\ UNCHANGED <<storeVars, authVars, cryptoVars, streamVars, fileVars>>

\* secure_clear: the test of _data_buffer; on a cleared buffer it returns
SSClearCheck(t) ==
    /\ ssPc[t].step = "body"
    /\ ssPc[t].method = "secure_clear"
    /\ IF data_buffer = None
       THEN /\ ssRes' = [ssRes EXCEPT
                            ![t] = SSResult("secure_clear", "ok", << >>, 0, ssPc[t].after)]
            /\ lockOwner' = 0
            /\ ssCleared' = TRUE
            /\ ssPc' = [ssPc EXCEPT ![t] = SSIdlePosition]
       ELSE /\ ssPc' = [ssPc EXCEPT ![t].step = "overwrite"]
            /\ UNCHANGED <<ssRes, lockOwner, ssCleared>>
    /\ UNCHANGED <<data_buffer, length>>
    /\ UNCHANGED <<storeVars, authVars, cryptoVars, streamVars, fileVars>>

\* secure_clear: the three random passes and the final memset to zero
SSClearOverwrite(t) ==
    /\ ssPc[t].step = "overwrite"
    /\ data_buffer' = [data_buffer EXCEPT !.raw = [i \in DOMAIN data_buffer.raw |-> 0]]
    /\ ssPc' = [ssPc EXCEPT ![t].step = "length"]
    /\ UNCHANGED <<length, lockOwner, ssRes, ssCleared>>
    /\ UNCHANGED <<storeVars, authVars, cryptoVars, streamVars, fileVars>>

\* secure_clear: self._length = 0
SSClearLength(t) ==
    /\ ssPc[t].step = "length"
    /\ length' = 0
    /\ ssPc' = [ssPc EXCEPT ![t].step = "buffer"]
    /\ UNCHANGED <<data_buffer, lockOwner, ssRes, ssCleared>>
    /\ UNCHANGED <<storeVars, authVars, cryptoVars, streamVars, fileVars>>

\* secure_clear: self._data_buffer = None, the release and the return
SSClearBuffer(t) ==
    /\ ssPc[t].step = "buffer"
    /\ data_buffer' = None
    /\ lockOwner' = 0
    /\ ssCleared' = TRUE
    /\ ssRes' = [ssRes EXCEPT
                    ![t] = SSResult("secure_clear", "ok", << >>, 0, ssPc[t].after)]
    /\ ssPc' = [ssPc EXCEPT ![t] = SSIdlePosition]
    /\ UNCHANGED length
    /\ UNCHANGED <<storeVars, authVars, cryptoVars, streamVars, fileVars>>

NextSS ==
    \/ \E t \in Threads, m \in LockedMethods : SSCall(t, m)
    \/ \E t \in Threads : SSLen(t)
    \/ \E t \in Threads : SSAcquire(t)
    \/ \E t \in Threads : SSRetrieve(t)
    \/ \E t \in Threads : SSClearCheck(t)
    \/ \E t \in Threads : SSClearOverwrite(t)
    \/ \E t \in Threads : SSClearLength(t)
    \/ \E t \in Threads : SSClearBuffer(t)

InitSS == StoreInit /\ AuthIdle /\ SSInit /\ CryptoIdle /\ StreamIdle /\ FileIdle

SpecSS == InitSS /\ [][NextSS]_vars

\* C10: once a secure_clear() has returned, every retrieve() and
\* retrieve_string() raises and len() is 0, whichever thread calls and
\* however often secure_clear() is called again; secure_clear() never raises.
C10_ClearedStaysCleared ==
    /\ \A t \in Threads :
          /\ ssRes[t].op = "secure_clear" => ssRes[t].kind = "ok"
          /\ ssRes[t].after =>
                /\ ssRes[t].op \in {"retrieve", "retrieve_string"} =>
                      ssRes[t].kind = "ValueError"
                /\ ssRes[t].op = "len" => ssRes[t].n = 0
                /\ ssRes[t].op = "secure_clear" => ssRes[t].kind = "ok"
    /\ ssCleared => (data_buffer = None /\ length = 0)

\* one thread has cleared an already cleared buffer and another thread's
\* retrieve, called after a clear, has raised
C10_Witness ==
    \E t \in Threads, u \in Threads :
        /\ t # u
        /\ ssRes[t].op = "secure_clear"
        /\ ssRes[t].after
        /\ ssRes[u].op = "retrieve"
        /\ ssRes[u].after
        /\ ssRes[u].kind = "ValueError"

(***************************************************************************)
(* crypto.py: SecureKeyContainer and the key handling of                   *)
(* SecureCryptoManager.  A container is the pair of its _secure_key (set   *)
(* or None) and its _key_usage_count.  Every method body that runs under   *)
(* one lock is one step; _get_master_key takes the container's lock twice, *)
(* once in needs_rekeying() and once in retrieve(), so it is two steps.    *)
(***************************************************************************)
MaxAuxUses == 2

KeyIds == {"k1"}
\* the key_id argument: absent, or an id that may or may not be registered
KeyArgs == {"none"} \cup KeyIds

Container(loaded, count) == [loaded |-> loaded, count |-> count]
MasterContainer == Container(master_loaded, key_usage_count)

\* SecureKeyContainer(key) for a non-empty key
new_container == Container(TRUE, 0)

\* the body of SecureKeyContainer.retrieve
container_retrieve(c) ==
    IF ~c.loaded
    THEN [kind |-> "ValueError", container |-> c]
    ELSE [kind |-> "ok", container |-> Container(c.loaded, c.count + 1)]

\* secure_clear that resets the usage count but keeps _secure_key
container_secure_clear_KeepKey(c) == Container(c.loaded, 0)

\* the body of SecureKeyContainer.secure_clear
container_secure_clear(c) == Container(FALSE, 0)

\* key_id and key_id in self._active_keys
uses_active_key(key_id, keys) == key_id # "none" /\ key_id \in DOMAIN keys

\* the calls on an auxiliary key that are followed: the first MaxAuxUses
\* retrievals after its registration, and those from MaxKeyUsesLeft before
\* the 100th to MaxAuxUses after it
AuxCallsLeft(c) ==
    \/ c.count < MaxAuxUses
    \/ /\ c.count >= max_usage_before_rekey - MaxKeyUsesLeft
       /\ c.count < max_usage_before_rekey + MaxAuxUses

CMPosition(op, step, key_id) == [op |-> op, step |-> step, key_id |-> key_id]
CMIdlePosition == CMPosition("none", "idle", "none")
\* the outcome of the call that was the last to obtain its key or to fail,
\* and of the secure_clear that was the last to return
CMResult(t, op, kind, key_id, path) ==
    [thread |-> t, op |-> op, kind |-> kind, key_id |-> key_id, path |-> path]

\* every variable of the vault but the master key's usage count
vaultVars == <<filesystem, primary, backups, quarantine, tempFile, txBackups, cipherFiles,
               nextId, now, txState, txOps, txIdx, txResults, txBackupFiles,
               opQueue, callerPc, response, worker, lastCall, lastExc>>

CryptoInit ==
    /\ master_loaded = TRUE
    /\ active_keys = EmptyMap
    /\ cmPc = [t \in Threads |-> CMIdlePosition]
    /\ cmRes = CMResult(0, "none", "none", "none", "none")
    /\ retrievals = max_usage_before_rekey - MaxKeyUsesLeft
    /\ cmCleared = FALSE

\* thread t enters encrypt_data or decrypt_data, which choose the key the
\* same way: if key_id and key_id in self._active_keys
CMCall(t, key_id) ==
    /\ cmPc[t].step = "idle"
    /\ uses_active_key(key_id, active_keys) => AuxCallsLeft(active_keys[key_id])
    /\ cmPc' = [cmPc EXCEPT ![t] =
                  CMPosition("crypt_data",
                             IF uses_active_key(key_id, active_keys)
                             THEN "active_key" ELSE "needs_rekeying",
                             key_id)]
    /\ UNCHANGED <<master_loaded, active_keys, cmRes, retrievals, cmCleared>>
    /\ UNCHANGED <<storeVars, authVars, ssVars, streamVars, fileVars>>

\* _get_master_key, first half: if needs_rekeying(): raise SecurityError
CMNeedsRekeying(t) ==
    /\ cmPc[t].step = "needs_rekeying"
    /\ IF needs_rekeying(MasterContainer.count)
       THEN /\ cmRes' = CMResult(t, "crypt_data", "SecurityError", cmPc[t].key_id, "master")
            /\ cmPc' = [cmPc EXCEPT ![t] = CMIdlePosition]
       ELSE /\ cmPc' = [cmPc EXCEPT ![t].step = "retrieve"]
            /\ UNCHANGED cmRes
    /\ UNCHANGED <<master_loaded, active_keys, retrievals, cmCleared>>
    /\ UNCHANGED <<storeVars, authVars, ssVars, streamVars, fileVars>>

\* _get_master_key, second half: return self._master_key_container.retrieve()
CMRetrieve(t) ==
    /\ cmPc[t].step = "retrieve"
    /\ LET r == container_retrieve(MasterContainer)
       IN  /\ key_usage_count' = r.container.count
           /\ master_loaded' = r.container.loaded
           /\ retrievals' = IF r.kind = "ok" THEN retrievals + 1 ELSE retrievals
           /\ cmRes' = CMResult(t, "crypt_data", r.kind, cmPc[t].key_id, "master")
    /\ cmPc' = [cmPc EXCEPT ![t] = CMIdlePosition]
    /\ UNCHANGED <<active_keys, cmCleared>>
    /\ UNCHANGED <<vaultVars, authVars, ssVars, streamVars, fileVars>>

\* with self._key_lock: key = self._active_keys[key_id].retrieve()
CMActiveKey(t) ==
    /\ cmPc[t].step = "active_key"
    /\ LET k == cmPc[t].key_id
       IN  IF k \notin DOMAIN active_keys
           THEN /\ cmRes' = CMResult(t, "crypt_data", "KeyError", k, "active_key")
                /\ UNCHANGED active_keys
           ELSE LET r == container_retrieve(active_keys[k])
                IN  /\ active_keys' = [active_keys EXCEPT ![k] = r.container]
                    /\ cmRes' = CMResult(t, "crypt_data", r.kind, k, "active_key")
    /\ cmPc' = [cmPc EXCEPT ![t] = CMIdlePosition]
    /\ UNCHANGED <<master_loaded, retrievals, cmCleared>>
    /\ UNCHANGED <<storeVars, authVars, ssVars, streamVars, fileVars>>

\* thread t enters SecureCryptoManager.secure_clear
CMClearCall(t) ==
    /\ cmPc[t].step = "idle"
    /\ cmPc' = [cmPc EXCEPT ![t] = CMPosition("secure_clear", "clear_master", "none")]
    /\ UNCHANGED <<master_loaded, active_keys, cmRes, retrievals, cmCleared>>
    /\ UNCHANGED <<storeVars, authVars, ssVars, streamVars, fileVars>>

\* self._master_key_container.secure_clear()
CMClearMaster(t) ==
    /\ cmPc[t].step = "clear_master"
    /\ LET c == container_secure_clear(MasterContainer)
       IN  /\ master_loaded' = c.loaded
           /\ key_usage_count' = c.count
    /\ cmPc' = [cmPc EXCEPT ![t].step = "clear_active_keys"]
    /\ UNCHANGED <<active_keys, cmRes, retrievals, cmCleared>>
    /\ UNCHANGED <<vaultVars, authVars, ssVars, streamVars, fileVars>>

\* with self._key_lock: clear every container, then self._active_keys.clear()
CMClearActiveKeys(t) ==
    /\ cmPc[t].step = "clear_active_keys"
    /\ active_keys' = EmptyMap
    /\ cmRes' = CMResult(t, "secure_clear", "ok", "none", "none")
    /\ cmPc' = [cmPc EXCEPT ![t] = CMIdlePosition]
    /\ cmCleared' = TRUE
    /\ UNCHANGED <<master_loaded, retrievals>>
    /\ UNCHANGED <<storeVars, authVars, ssVars, streamVars, fileVars>>

\* register_key(key_id, key): a key is loaded again
RegisterKey(key_id) ==
    /\ active_keys' = [k \in DOMAIN active_keys \cup {key_id} |->
                          IF k = key_id THEN new_container ELSE active_keys[k]]
    /\ cmCleared' = FALSE
    /\ UNCHANGED <<master_loaded, cmPc, cmRes, retrievals>>
    /\ UNCHANGED <<storeVars, authVars, ssVars, streamVars, fileVars>>

\* unregister_key(key_id)
UnregisterKey(key_id) ==
    /\ key_id \in DOMAIN active_keys
    /\ active_keys' = [k \in DOMAIN active_keys \ {key_id} |-> active_keys[k]]
    /\ UNCHANGED <<master_loaded, cmPc, cmRes, retrievals, cmCleared>>
    /\ UNCHANGED <<storeVars, authVars, ssVars, streamVars, fileVars>>

NextKey ==
    \/ \E t \in Threads, key_id \in KeyArgs : CMCall(t, key_id)
    \/ \E t \in Threads : CMNeedsRekeying(t)
    \/ \E t \in Threads : CMRetrieve(t)
    \/ \E t \in Threads : CMActiveKey(t)
    \/ \E t \in Threads : CMClearCall(t)
    \/ \E t \in Threads : CMClearMaster(t)
    \/ \E t \in Threads : CMClearActiveKeys(t)
    \/ \E key_id \in KeyIds : RegisterKey(key_id)
    \/ \E key_id \in KeyIds : UnregisterKey(key_id)

InitKey == StoreInit /\ AuthIdle /\ SSIdle /\ CryptoInit /\ StreamIdle /\ FileIdle

SpecKey == InitKey /\ [][NextKey]_vars

\* C11: between two loads of the master key at most 100 retrieve() calls
\* return it, however the callers of encrypt_data and decrypt_data interleave.
C11_AtMostHundredRetrievals == retrievals <= max_usage_before_rekey

\* a call of encrypt_data or decrypt_data obtains its key or fails in this step
CryptReturns == cmRes' # cmRes /\ cmRes'.op = "crypt_data"

\* a call of secure_clear returns in this step
ClearReturns == \E t \in Threads : cmPc[t].step = "clear_active_keys" /\ cmPc'[t].step = "idle"

\* C12: secure_clear() never raises, whatever the state and however often it
\* is called; once it has returned the master key and every registered key
\* are gone, and until a key is registered again every encrypt_data and
\* decrypt_data call fails, with or without a key id.
C12_ClearedManagerRefuses ==
    [][ /\ ClearReturns => cmRes'.op = "secure_clear" /\ cmRes'.kind = "ok"
        /\ cmCleared' => ~master_loaded' /\ active_keys' = EmptyMap
        /\ (cmCleared /\ CryptReturns) => cmRes'.kind # "ok" ]_vars

\* secure_clear has returned, a call that named a key id was then refused,
\* and another secure_clear is running on the cleared manager
C12_Witness ==
    /\ cmCleared
    /\ ~master_loaded
    /\ key_usage_count = 0
    /\ cmRes.op = "crypt_data"
    /\ cmRes.key_id \in KeyIds
    /\ cmRes.kind = "ValueError"
    /\ \E t \in Threads : cmPc[t].step = "clear_active_keys"

(***************************************************************************)
(* crypto.py: encrypt_large_file and decrypt_large_file.  A plaintext file *)
(* is its length; a chunk of it is the pair of its offset and its length.  *)
(* A Fernet token carries the chunk it seals, the key, and its own length  *)
(* in bytes, and the reader cuts the vault file by byte counts.            *)
(***************************************************************************)
MaxChunks == 3

\* SecureCryptoManager._chunk_size = 64 * 1024
chunk_size == 65536

\* infile.read(self._chunk_size + 100) in decrypt_large_file
read_window == chunk_size + 100

FolderKeys == {"none", "fdk"}
FileKey == "fk"

\* lengths of the plaintext files: whole chunks followed by a last chunk that
\* is empty, one byte, one AES block, the longest whose token fits the read
\* window, the shortest whose token does not, or one byte short of a chunk
FileSizes ==
    {k * chunk_size + r : k \in 0 .. MaxChunks - 1,
                          r \in {0, 1, 16, 49167, 49168, chunk_size - 1}}

\* length of Fernet(key).encrypt(data) for len(data) = n: version, timestamp,
\* IV, the PKCS7-padded AES-CBC ciphertext and the HMAC, base64 encoded
token_len(n) == 4 * ((1 + 8 + 16 + 16 * (n \div 16 + 1) + 32 + 2) \div 3)

\* file_fernet.encrypt(chunk)
Token(key, start, len) ==
    [key |-> key, start |-> start, len |-> len, size |-> token_len(len)]

\* infile.read(n) at offset pos of a file of total bytes: the bytes returned
read_len(pos, n, total) == IF total - pos < n THEN total - pos ELSE n

\* the bytes the tokens of body take, summed by halves
RECURSIVE BodySize(_)
BodySize(body) ==
    IF body = << >> THEN 0
    ELSE IF Len(body) = 1 THEN body[1].size
    ELSE LET half == Len(body) \div 2
         IN  BodySize(SubSeq(body, 1, half)) + BodySize(SubSeq(body, half + 1, Len(body)))

\* byte offset of token i in the vault file, after the header
TokenStart(body, i) == BodySize(SubSeq(body, 1, i - 1))

\* file_fernet.decrypt(chunk) for the got bytes read at offset pos: Fernet
\* accepts exactly one whole token sealed under its key
fernet_decrypt_window(key, body, pos, got) ==
    IF \E i \in 1 .. Len(body) :
          TokenStart(body, i) = pos /\ body[i].size = got /\ body[i].key = key
    THEN LET i == CHOOSE j \in 1 .. Len(body) : TokenStart(body, j) = pos
         IN  [kind |-> "ok", start |-> body[i].start, len |-> body[i].len]
    ELSE [kind |-> "InvalidToken", start |-> 0, len |-> 0]

\* the first pair of calls, or the next one after a pair has ended
LFCall(size, folder_key) ==
    /\ lfState \in {"idle", "done", "failed"}
    /\ lfState' = "encrypt_open"
    /\ lfSize' = size
    /\ lfFolderKey' = folder_key
    /\ lfInPos' = 0
    /\ lfVault' = None
    /\ lfRdPos' = 0
    /\ lfOut' = << >>
    /\ lfExc' = "none"
    /\ UNCHANGED <<storeVars, authVars, ssVars, cryptoVars, fileVars>>

\* encrypt_large_file up to the header: the file key is sealed under the
\* folder key or, by encrypt_data, under the master key
LFEncryptOpen ==
    /\ lfState = "encrypt_open"
    /\ IF lfFolderKey = "none" /\ needs_rekeying(key_usage_count)
       THEN /\ lfState' = "failed"
            /\ lfExc' = "SecurityError"
            /\ UNCHANGED <<lfVault, key_usage_count>>
       ELSE /\ lfState' = "encrypting"
            /\ lfVault' = [kind |-> "vault_file",
                           key_length |-> token_len(44),
                           encrypted_file_key |->
                               Fernet_encrypt(IF lfFolderKey = "none" THEN MasterKey
                                              ELSE lfFolderKey, FileKey),
                           body |-> << >>]
            /\ key_usage_count' = IF lfFolderKey = "none" THEN key_usage_count + 1
                                  ELSE key_usage_count
            /\ UNCHANGED lfExc
    /\ UNCHANGED <<lfSize, lfFolderKey, lfInPos, lfRdPos, lfOut>>
    /\ UNCHANGED <<vaultVars, authVars, ssVars, cryptoVars, fileVars>>

\* one turn of the loop of encrypt_large_file
LFEncryptChunk ==
    /\ lfState = "encrypting"
    /\ LET got == read_len(lfInPos, chunk_size, lfSize)
       IN  IF got = 0
           THEN /\ lfState' = "stored"
                /\ UNCHANGED <<lfInPos, lfVault>>
           ELSE /\ lfVault' = [lfVault EXCEPT !.body = Append(@, Token(FileKey, lfInPos, got))]
                /\ lfInPos' = lfInPos + got
                /\ UNCHANGED lfState
    /\ UNCHANGED <<lfSize, lfFolderKey, lfRdPos, lfOut, lfExc>>
    /\ UNCHANGED <<storeVars, authVars, ssVars, cryptoVars, fileVars>>

\* decrypt_large_file up to the loop: read the header, open the file key
LFDecryptOpen ==
    /\ lfState = "stored"
    /\ IF lfFolderKey = "none" /\ needs_rekeying(key_usage_count)
       THEN /\ lfState' = "failed"
            /\ lfExc' = "SecurityError"
            /\ UNCHANGED key_usage_count
       ELSE /\ key_usage_count' = IF lfFolderKey = "none" THEN key_usage_count + 1
                                  ELSE key_usage_count
            /\ IF Fernet_can_decrypt(IF lfFolderKey = "none" THEN MasterKey
                                     ELSE lfFolderKey, lfVault.encrypted_file_key)
               THEN lfState' = "decrypting" /\ UNCHANGED lfExc
               ELSE lfState' = "failed" /\ lfExc' = "InvalidToken"
    /\ UNCHANGED <<lfSize, lfFolderKey, lfInPos, lfVault, lfRdPos, lfOut>>
    /\ UNCHANGED <<vaultVars, authVars, ssVars, cryptoVars, fileVars>>

\* one turn of the loop of decrypt_large_file; a failure discards the
\* temporary output file
LFDecryptChunk ==
    /\ lfState = "decrypting"
    /\ LET got == read_len(lfRdPos, read_window, BodySize(lfVault.body))
           r == fernet_decrypt_window(lfVault.encrypted_file_key.data,
                                      lfVault.body, lfRdPos, got)
       IN  IF got = 0
           THEN /\ lfState' = "done"
                /\ UNCHANGED <<lfRdPos, lfOut, lfExc>>
           ELSE IF r.kind = "ok"
           THEN /\ lfOut' = Append(lfOut, [start |-> r.start, len |-> r.len])
                /\ lfRdPos' = lfRdPos + got
                /\ UNCHANGED <<lfState, lfExc>>
           ELSE /\ lfState' = "failed"
                /\ lfExc' = "ValueError"
                /\ lfOut' = << >>
                /\ UNCHANGED lfRdPos
    /\ UNCHANGED <<lfSize, lfFolderKey, lfInPos, lfVault>>
    /\ UNCHANGED <<storeVars, authVars, ssVars, cryptoVars, fileVars>>

NextStream ==
    \/ \E size \in FileSizes, folder_key \in FolderKeys : LFCall(size, folder_key)
    \/ LFEncryptOpen
    \/ LFEncryptChunk
    \/ LFDecryptOpen
    \/ LFDecryptChunk

SpecStream == Init /\ [][NextStream]_vars

\* the chunks written are the bytes 0 .. size-1 of the plaintext, in order
IsPlaintext(out, size) ==
    /\ \A i \in 1 .. Len(out) :
          out[i].start = IF i = 1 THEN 0 ELSE out[i - 1].start + out[i - 1].len
    /\ size = IF out = << >> THEN 0 ELSE out[Len(out)].start + out[Len(out)].len

\* C13: decrypt_large_file applied to the output of encrypt_large_file with
\* the same key writes the plaintext byte for byte, whatever its length; the
\* only call that may fail is one refused the master key.
C13_StreamingRoundTrip ==
    /\ lfState = "failed" => lfExc = "SecurityError"
    /\ lfState = "done" => IsPlaintext(lfOut, lfSize)

(***************************************************************************)
(* auth.py: get_master_key on a credential record whose wrapped-key data   *)
(* was damaged on disk before a new SecureAuthManager loaded it.           *)
(***************************************************************************)
WrappedKeyFields == {"encrypted_master_key", "encrypted_master_password_encoder"}

\* bytes that are no token of any key in use
DamagedToken ==
    Fernet_encrypt(derive_key_from_password("damaged", Random(0, "damaged")),
                   Random(0, "damaged"))

\* the record with one of its wrapped-key fields overwritten
damaged_record(cfg, field) ==
    IF field = "encrypted_master_key"
    THEN [cfg EXCEPT !.encrypted_master_key = DamagedToken]
    ELSE [cfg EXCEPT !.encrypted_master_password_encoder =
                        [kind |-> "wrapped", salt |-> @.salt, token |-> DamagedToken]]

\* data/vault_config.json is damaged and a new SecureAuthManager loads it
Damage(field) ==
    /\ config_file # None
    /\ config_file' = damaged_record(config_file, field)
    /\ config' = damaged_record(config_file, field)
    /\ lastResult' = NoCall
    /\ UNCHANGED <<nKeys, curPw, persistFailed>>
    /\ UNCHANGED lockoutVars
    /\ UNCHANGED <<storeVars, ssVars, cryptoVars, streamVars, fileVars>>

NextAuthDamaged ==
    \/ NextAuth
    \/ \E field \in WrappedKeyFields : Damage(field)

SpecAuthDamaged == Init /\ [][NextAuthDamaged]_vars

\* what a caller of get_master_key that failed can observe
FailureSeen(r) == <<r.kind, r.message>>

\* C14: a get_master_key call that has failed shows its caller the same
\* error kind and text as any other failing call on the same record does,
\* whether the password was wrong or the wrapped-key data is damaged.
C14_FailureIndistinguishable ==
    (lastResult.op = "get_master_key" /\ lastResult.kind = "ValueError") =>
        \A q \in Passwords :
            get_master_key(config, q).kind # "ok" =>
                FailureSeen(get_master_key(config, q))
                    = FailureSeen(get_master_key(config, lastResult.arg[1]))

(***************************************************************************)
(* auth.py: the two ways to the master key are kept apart.                 *)
(***************************************************************************)
\* the keys of the record that change_master_password writes
PasswordPath ==
    {"master_password_hash", "encrypted_master_key",
     "encrypted_master_password_encoder", "password_hint", "last_password_change"}

\* the keys of the record that setup_recovery_questions writes
RecoveryPath ==
    {"encrypted_recovery_key", "encrypted_recovery_encoder", "recovery_questions",
     "recovery_setup_date"}

SameFields(a, b, fields) == \A f \in fields : a[f] = b[f]

\* what recover_master_key gives for the answers, with no attempt on record
RecoveryUnlock(cfg, answers) ==
    LET r == recover_master_key(cfg, << >>, 0, answers) IN <<r.kind, r.value>>

\* what get_master_key gives for the password
PasswordUnlock(cfg, password) ==
    LET r == get_master_key(cfg, password) IN <<r.kind, r.value>>

\* C15: change_master_password writes the password path only: the recovery
\* artifacts, the stored questions and the credential id stay as they were
\* and recovery unlocks the same master key as before; setup_recovery_questions
\* writes the recovery path only: the password artifacts stay as they were
\* and every password unlocks what it unlocked before.
C15_PathsIndependent ==
    [][ /\ (lastResult'.op = "change_master_password" /\ config' # config) =>
              /\ SameFields(config, config', RecoveryPath \cup {"user_id"})
              /\ \A a \in AnswerLists : RecoveryUnlock(config', a) = RecoveryUnlock(config, a)
              /\ \A a \in AnswerLists, p \in Passwords :
                    (RecoveryUnlock(config', a)[1] = "ok" /\ PasswordUnlock(config', p)[1] = "ok")
                        => RecoveryUnlock(config', a)[2] = PasswordUnlock(config', p)[2]
        /\ (lastResult'.op = "setup_recovery_questions" /\ config' # config) =>
              /\ SameFields(config, config', PasswordPath \cup {"user_id"})
              /\ \A p \in Passwords : PasswordUnlock(config', p) = PasswordUnlock(config, p)
              /\ \A a \in AnswerLists, p \in Passwords :
                    (RecoveryUnlock(config', a)[1] = "ok" /\ PasswordUnlock(config', p)[1] = "ok")
                        => RecoveryUnlock(config', a)[2] = PasswordUnlock(config', p)[2]
      ]_vars

\* the recovery questions have just been set up again on a record whose
\* password was changed before, and both paths unlock the master key
C15_Witness ==
    /\ lastResult.op = "setup_recovery_questions"
    /\ lastResult.kind = "ok"
    /\ config.last_password_change = "set"
    /\ curPw # "none"
    /\ PasswordUnlock(config, curPw)[1] = "ok"
    /\ RecoveryUnlock(config, ConfiguredAnswers) = PasswordUnlock(config, curPw)

(***************************************************************************)
(* vault_core.py: concurrent callers of add_file.  Each call queues its    *)
(* request with a result queue of its own; the one worker thread runs the  *)
(* requests in order.  Saves use the same master key as the adds.          *)
(***************************************************************************)
NextAdd ==
    \/ \E c \in Callers, p \in Paths : CallAddFile(c, p)
    \/ process_operations
    \/ \E c \in Callers : Return(c)
    \/ Save

SpecAdd == Init /\ [][NextAdd]_vars

\* the worker runs a queued add_file whose source file exists
AddExecutes ==
    /\ opQueue # << >>
    /\ opQueue' = Tail(opQueue)
    /\ Head(opQueue).func = "add_file"
    /\ Head(opQueue).arg = "good"

Occurrences(seq, x) == Cardinality({i \in DOMAIN seq : seq[i] = x})

\* C16: every add_file call with a valid source file gets, on its own result
\* queue, the id of a file that was not in the tree before and is in it
\* afterwards, listed once in its folder; no other caller's result changes.
C16_EveryAddDelivered ==
    [][ AddExecutes =>
          LET c == Head(opQueue).caller
              r == response'[c]
          IN  /\ r.kind = "success"
              /\ r.value \notin DOMAIN filesystem.files
              /\ DOMAIN filesystem'.files = DOMAIN filesystem.files \cup {r.value}
              /\ filesystem'.files[r.value].folder_id = "root"
              /\ Occurrences(filesystem'.folders["root"].children, r.value) = 1
              /\ \A d \in Callers \ {c} : response'[d] = response[d]
      ]_vars

\* the same, for the calls that were not refused the master key
AddDeliveredUnlessRefused ==
    [][ (AddExecutes /\ ~needs_rekeying(key_usage_count)) =>
          LET c == Head(opQueue).caller
              r == response'[c]
          IN  /\ r.kind = "success"
              /\ r.value \notin DOMAIN filesystem.files
              /\ DOMAIN filesystem'.files = DOMAIN filesystem.files \cup {r.value}
              /\ Occurrences(filesystem'.folders["root"].children, r.value) = 1
              /\ \A d \in Callers \ {c} : response'[d] = response[d]
      ]_vars

(***************************************************************************)
(* vault_core.py: a transaction that is left without a commit, and calls   *)
(* on a transaction whose commit() has started.  Every method takes the    *)
(* transaction's lock, which commit() holds until it returns or raises, so *)
(* a call made while commit() runs makes its state check after it.         *)
(***************************************************************************)
\* __exit__ that makes the transaction usable again
BodyRaises_Reset(t) ==
    /\ txState[t] \in {"initialized", "committed", "failed"}
    /\ txState' = [txState EXCEPT ![t] = "initialized"]
    /\ lastCall' = "exit"
    /\ lastExc' = "none"
    /\ UNCHANGED <<filesystem, diskVars, cipherFiles, nextId, now, txOps, txIdx,
                   txResults, txBackupFiles, txBackups, queueVars, key_usage_count>>
    /\ UNCHANGED <<authVars, ssVars, cryptoVars, streamVars, fileVars>>

\* __exit__ with an exception of the with-block: no commit, no rollback
\* unless the state is 'executing', then 'failed'
BodyRaises(t) ==
    /\ txState[t] \in {"initialized", "committed", "failed"}
    /\ txState' = [txState EXCEPT ![t] = "failed"]
    /\ lastCall' = "exit"
    /\ lastExc' = "none"
    /\ UNCHANGED <<filesystem, diskVars, cipherFiles, nextId, now, txOps, txIdx,
                   txResults, txBackupFiles, txBackups, queueVars, key_usage_count>>
    /\ UNCHANGED <<authVars, ssVars, cryptoVars, streamVars, fileVars>>

\* commit() on a transaction that is not 'initialized': RuntimeError
CommitRejected(t) ==
    /\ txState[t] \in {"committed", "failed"}
    /\ lastCall' = "commit_again"
    /\ lastExc' = "RuntimeError"
    /\ UNCHANGED <<filesystem, diskVars, cipherFiles, nextId, now, txVars, queueVars,
                   key_usage_count>>
    /\ UNCHANGED <<authVars, ssVars, cryptoVars, streamVars, fileVars>>

\* add_file, create_folder or delete_file on a transaction that is not
\* 'initialized': RuntimeError
StageRejected(t, op) ==
    /\ txState[t] \in {"committed", "failed"}
    /\ lastCall' = "stage_late"
    /\ lastExc' = "RuntimeError"
    /\ UNCHANGED <<filesystem, diskVars, cipherFiles, nextId, now, txVars, queueVars,
                   key_usage_count>>
    /\ UNCHANGED <<authVars, ssVars, cryptoVars, streamVars, fileVars>>

NextTx ==
    \/ \E t \in Txs, op \in StagedOps : Stage(t, op)
    \/ \E t \in Txs : CommitBegin(t)
    \/ \E t \in Txs : CommitStepOk(t)
    \/ \E t \in Txs : CommitStepFail(t)
    \/ \E t \in Txs : CommitFinish(t)
    \/ \E t \in Txs : BodyRaises(t)
    \/ \E t \in Txs : CommitRejected(t)
    \/ \E t \in Txs, op \in StagedOps : StageRejected(t, op)

SpecTx == Init /\ [][NextTx]_vars

\* the tree in memory, the files of the vault and the master key's use count
\* are as they were
StoreUntouched ==
    UNCHANGED <<filesystem, primary, backups, quarantine, txBackups, cipherFiles,
                nextId, key_usage_count>>

\* transaction t ended before any of its operations ran
NeverRan(t) ==
    txState[t] = "failed" /\ txIdx[t] = 0 /\ txBackupFiles[t] = << >>

\* C17: staging an operation changes neither the tree in memory nor any
\* file; leaving the with-block by an exception changes neither; and a
\* transaction that ended before any of its operations ran never runs one.
C17_StagingAndDiscardAreInert ==
    [][ /\ (\E t \in Txs : txOps'[t] # txOps[t]) => StoreUntouched
        /\ lastCall' = "exit" => StoreUntouched
        /\ \A t \in Txs :
              NeverRan(t) => (NeverRan(t)' /\ txResults'[t] = << >> /\ ~ExecutesOp(t))
      ]_vars

\* a with-block that staged operations was left by an exception, and a
\* commit() tried on it afterwards was refused
C17_Witness ==
    \E t \in Txs :
        /\ NeverRan(t)
        /\ txOps[t] # << >>
        /\ lastCall = "commit_again"
        /\ \A u \in Txs \ {t} : txState[u] = "initialized"
        /\ filesystem = default_filesystem

\* C18: once commit() has started on a transaction nothing is staged on it
\* any more and it never returns to 'initialized'; once commit() has ended,
\* in 'committed' or 'failed', no operation of it runs again and its results
\* stay; a further commit() or staging call raises RuntimeError and touches
\* nothing; the operations run one by one, none twice.
C18_AtMostOnce ==
    [][ /\ \A t \in Txs :
              /\ txState[t] # "initialized" =>
                    (txOps'[t] = txOps[t] /\ txState'[t] # "initialized")
              /\ txState[t] \in {"committed", "failed"} =>
                    /\ txState'[t] \in {"committed", "failed"}
                    /\ txIdx'[t] = txIdx[t]
                    /\ txResults'[t] = txResults[t]
                    /\ ~ExecutesOp(t)
              /\ txIdx'[t] \in {txIdx[t], txIdx[t] + 1}
        /\ lastCall' \in {"commit_again", "stage_late"} =>
              (lastExc' = "RuntimeError" /\ StoreUntouched)
      ]_vars

\* a transaction has committed an operation and a second commit() on it has
\* been refused
C18_Witness ==
    \E t \in Txs :
        /\ txState[t] = "committed"
        /\ txResults[t] # << >>
        /\ lastCall = "commit_again"
        /\ lastExc = "RuntimeError"
        /\ \A u \in Txs \ {t} : txState[u] = "initialized"

\* position of a file id in the order in which ids are given out
IdIndex(id) == CHOOSE k \in 1 .. Len(FileIdSeq) : FileIdSeq[k] = id

\* the operation can succeed: an add_file whose source file exists
CanSucceed(op) == op.type = "add_file" /\ op.file_path = "good"

\* C19: the operations commit() has executed are the first ones staged, each
\* with its result, in the order staged; commit() got past none that raised,
\* and 'committed' means it executed them all.
C19_ExecutesInStagedOrder ==
    \A t \in Txs :
        /\ txIdx[t] <= Len(txOps[t])
        /\ Len(txResults[t]) = txIdx[t]
        /\ \A i \in 1 .. txIdx[t] : CanSucceed(txOps[t][i])
        /\ \A i \in 1 .. txIdx[t], j \in 1 .. txIdx[t] :
              i < j => IdIndex(txResults[t][i]) < IdIndex(txResults[t][j])
        /\ txState[t] = "committed" => txIdx[t] = Len(txOps[t])

\* one transaction has executed its two operations in order; another has
\* stopped at its first operation, which raised, and left the one staged
\* after it alone
C19_Witness ==
    \E t \in Txs, u \in Txs :
        /\ txState[t] = "committed"
        /\ txIdx[t] = 2
        /\ txState[u] = "failed"
        /\ txBackupFiles[u] # << >>
        /\ txIdx[u] = 0
        /\ Len(txOps[u]) = 2
        /\ CanSucceed(txOps[u][2])

(***************************************************************************)
(* vault_core.py: loading a persisted tree whose references dangle.        *)
(***************************************************************************)
\* a tree with a file in a folder that does not exist, and a tree whose root
\* lists a child that does not exist
DanglingTrees ==
    {[AddToTree(default_filesystem, "f1", "root") EXCEPT !.files["f1"].folder_id = "gone"],
     [default_filesystem EXCEPT !.folders["root"].children = <<"f4">>]}

\* _validate_filesystem_integrity: a file of a missing folder is moved to
\* root, a child that is neither file nor folder is dropped.  It is called
\* by _load_filesystem after the primary file has been read and verified.
validate_filesystem_integrity(tree) ==
    [tree EXCEPT
        !.files = [f \in DOMAIN tree.files |->
                      IF tree.files[f].folder_id \notin DOMAIN tree.folders
                      THEN [tree.files[f] EXCEPT !.folder_id = "root"]
                      ELSE tree.files[f]],
        !.folders = [d \in DOMAIN tree.folders |->
                        [tree.folders[d] EXCEPT !.children =
                            SelectSeq(@, LAMBDA c : c \in DOMAIN tree.files
                                                    \/ c \in DOMAIN tree.folders)]]]

\* the tree in memory is replaced by one with dangling references, as by
\* direct assignments to vault.filesystem
SetDangling(tree) ==
    /\ AtRest
    /\ filesystem' = tree
    /\ lastCall' = "edit"
    /\ lastExc' = "none"
    /\ UNCHANGED <<diskVars, cipherFiles, nextId, now, txVars, queueVars, key_usage_count>>
    /\ UNCHANGED <<authVars, ssVars, cryptoVars, streamVars, fileVars>>

NextDangling ==
    \/ \E tree \in DanglingTrees : SetDangling(tree)
    \/ Save
    \/ Load
    \/ Tick

SpecDangling == Init /\ [][NextDangling]_vars

\* every file is in a folder of the tree and every child of every folder is
\* a file or a folder of the tree
ReferencesResolve(tree) ==
    /\ \A f \in DOMAIN tree.files : tree.files[f].folder_id \in DOMAIN tree.folders
    /\ \A d \in DOMAIN tree.folders :
          \A i \in DOMAIN tree.folders[d].children :
              tree.folders[d].children[i] \in DOMAIN tree.files \cup DOMAIN tree.folders

\* C20: after a _load_filesystem() that returned, every FileNode's folder_id
\* names a folder of the tree and every child list holds only ids of files or
\* folders of the tree.
C20_LoadRepairsReferences ==
    (lastCall \in {"load", "save_load", "corrupt_load"} /\ lastExc = "none") =>
        ReferencesResolve(filesystem)

(***************************************************************************)
(* The backup directory over saves and commits                             *)
(***************************************************************************)

\* how many filesystem_backup_ files earlier runs have left in data/backups
BackupCounts == {1, Retention - 1, Retention}

\* the filesystem_backup_ files of earlier runs: one per second before the
\* vault is opened, each a copy of the primary of that time
OldBackups(k) ==
    [ts \in {0 - i : i \in 1..k} |-> encrypt_with_master_key(Payload(default_filesystem))]

\* SecureVaultCore.__init__ on a data directory that earlier runs have used:
\* _load_filesystem finds the primary and the retained backups
InitBackup ==
    /\ \E k \in BackupCounts :
        LET prim == encrypt_with_master_key(Payload(default_filesystem))
            n == max_usage_before_rekey - MaxKeyUsesLeft
            loaded == load_filesystem(default_filesystem, prim, OldBackups(k), 0, n)
        IN /\ filesystem = loaded.filesystem
           /\ primary = loaded.primary
           /\ backups = loaded.backups
           /\ key_usage_count = loaded.count
           /\ lastExc = loaded.exc
           /\ quarantine = IF Quarantines(prim) THEN [ts \in {0} |-> prim] ELSE EmptyMap
    /\ tempFile = NoFile
    /\ txBackups = [t \in Txs |-> NoFile]
    /\ cipherFiles = {}
    /\ nextId = 0
    /\ now = 0
    /\ txState = [t \in Txs |-> "initialized"]
    /\ txOps = [t \in Txs |-> << >>]
    /\ txIdx = [t \in Txs |-> 0]
    /\ txResults = [t \in Txs |-> << >>]
    /\ txBackupFiles = [t \in Txs |-> << >>]
    /\ opQueue = << >>
    /\ callerPc = [c \in Callers |-> "idle"]
    /\ response = [c \in Callers |-> None]
    /\ worker = "running"
    /\ lastCall = "init"
    /\ AuthIdle /\ SSIdle /\ CryptoIdle /\ StreamIdle /\ FileIdle

\* SpecBackup: saves and one transaction, second after second, on a used
\* directory
NextBackup ==
    \/ Tick
    \/ Save
    \/ \E op \in StagedOps : Stage(1, op)
    \/ CommitBegin(1)
    \/ CommitStepOk(1)
    \/ CommitStepFail(1)
    \/ CommitFinish(1)

SpecBackup == InitBackup /\ [][NextBackup]_vars

\* the filesystem_backup_ and transaction_backup_ files in data/backups
BackupFiles ==
    {<<"filesystem_backup", ts>> : ts \in DOMAIN backups}
        \cup {<<"transaction_backup", t>> : t \in {u \in Txs : txBackups[u] # NoFile}}

\* C21: after any sequence of saves and commits, successful or failed, the
\* backup directory never holds more backup files than the retention count.
C21_BackupsWithinRetention ==
    (\A t \in Txs : txState[t] # "executing") => Cardinality(BackupFiles) <= Retention

\* the part that the pruning of _create_filesystem_backup does keep
FilesystemBackupsWithinRetention == Cardinality(DOMAIN backups) <= Retention

(***************************************************************************)
(* Loading a damaged primary                                               *)
(***************************************************************************)

\* the load failures of a primary that has content: a token that does not
\* open, a payload of another format version, a payload whose checksum does
\* not match
ListedFailures == DamagedContents \ {EmptyFile}

\* a backup file that _restore_from_backup can read: a token of the master
\* key holding a payload whose checksum matches
UsableBackup(content) ==
    /\ CanDecrypt(content)
    /\ content.body.kind = "payload"
    /\ sha256(content.body.data) = content.body.checksum

\* a _load_filesystem that finds the primary damaged leaves a copy of it in
\* corrupted_filesystem_<now>.bak
QuarantinedOnLoad ==
    [][(Load /\ primary \in ListedFailures)
          => (now \in DOMAIN quarantine' /\ quarantine'[now] = primary)]_vars

\* ... and, while the master key may still be retrieved twice, the tree of
\* the most recent backup
RestoredOnLoadUnlessRefused ==
    [][(/\ Load
        /\ primary \in ListedFailures
        /\ ~needs_rekeying(key_usage_count + 1))
          => filesystem' = PersistedTree(backups[LatestBackup(backups)])]_vars

\* C22: for every kind of load failure of the primary, _load_filesystem
\* copies the unreadable file aside before it is replaced and restores from
\* the most recent backup; the default tree is created only if no backup is
\* usable.
C22_QuarantineThenRestore ==
    [][(Load /\ primary \in ListedFailures)
          => /\ now \in DOMAIN quarantine' /\ quarantine'[now] = primary
             /\ (\E ts \in DOMAIN backups : UsableBackup(backups[ts]))
                   => filesystem' = PersistedTree(backups[LatestBackup(backups)])]_vars

(***************************************************************************)
(* SpecFiles: folders, vault files, extract_file and verify_integrity      *)
(***************************************************************************)

\* the folders a tree is given besides the root: one without a password
\* ('is_locked': False, as in test_add_file_to_folder) and one with
\* password_hash and encrypted_folder_key
PlainFolders == {"test_folder"}
ProtectedFolders == {"locked_folder"}
FolderIds == PlainFolders \cup ProtectedFolders
FolderPasswords == {"folderpw", "wrong"}

\* SecureFolderSecurityManager._secure_password_check: a folder without
\* password_hash raises KeyError inside the try, which gives False
secure_password_check(folder_id, password) ==
    folder_id \in ProtectedFolders /\ password = "folderpw"

\* a folder is put into the tree by assignment to vault.filesystem['folders']
AddFolder(d) ==
    /\ AtRest
    /\ d \notin DOMAIN filesystem.folders
    /\ filesystem' = [filesystem EXCEPT
           !.folders = [k \in DOMAIN @ \cup {d} |->
                           IF k = d THEN [id |-> d, parent |-> "root", children |-> << >>]
                           ELSE @[k]]]
    /\ lastCall' = "edit"
    /\ lastExc' = "none"
    /\ UNCHANGED <<diskVars, cipherFiles, nextId, now, txVars, queueVars, key_usage_count>>
    /\ UNCHANGED <<authVars, ssVars, cryptoVars, streamVars, fileVars>>

\* unlock_folder(folder_data, folder_password): on success the folder key is
\* opened with the master key and the folder is entered in unlocked_folders
UnlockFolder(d, password) ==
    /\ d \in DOMAIN filesystem.folders
    /\ d \in FolderIds
    /\ IF ~secure_password_check(d, password)
       THEN /\ lastExc' = "none"
            /\ UNCHANGED <<unlocked_folders, key_usage_count>>
       ELSE IF needs_rekeying(key_usage_count)
       THEN /\ lastExc' = "SecurityError"
            /\ UNCHANGED <<unlocked_folders, key_usage_count>>
       ELSE /\ unlocked_folders' = unlocked_folders \cup {d}
            /\ key_usage_count' = key_usage_count + 1
            /\ lastExc' = "none"
    /\ lastCall' = "unlock_folder"
    /\ UNCHANGED <<filesystem, diskVars, cipherFiles, nextId, now, txVars, queueVars>>
    /\ UNCHANGED <<authVars, ssVars, cryptoVars, streamVars>>
    /\ UNCHANGED <<replaced, outputPath, issues>>

\* lock_folder(folder_id)
LockFolder(d) ==
    /\ d \in unlocked_folders
    /\ unlocked_folders' = unlocked_folders \ {d}
    /\ lastCall' = "lock_folder"
    /\ lastExc' = "none"
    /\ UNCHANGED <<filesystem, diskVars, cipherFiles, nextId, now, txVars, queueVars,
                   key_usage_count>>
    /\ UNCHANGED <<authVars, ssVars, cryptoVars, streamVars>>
    /\ UNCHANGED <<replaced, outputPath, issues>>

\* the vault file of id is overwritten with the vault file of other data
\* (another file of the vault, or an earlier copy of the directory)
ReplaceVaultFile(id) ==
    /\ AtRest
    /\ id \in cipherFiles \ replaced
    /\ replaced' = replaced \cup {id}
    /\ lastCall' = "edit"
    /\ lastExc' = "none"
    /\ UNCHANGED <<filesystem, diskVars, cipherFiles, nextId, now, txVars, queueVars,
                   key_usage_count>>
    /\ UNCHANGED <<authVars, ssVars, cryptoVars, streamVars>>
    /\ UNCHANGED <<unlocked_folders, outputPath, issues>>

\* the vault file of id is removed from data/encrypted_files
RemoveVaultFile(id) ==
    /\ AtRest
    /\ id \in cipherFiles
    /\ cipherFiles' = cipherFiles \ {id}
    /\ replaced' = replaced \ {id}
    /\ lastCall' = "edit"
    /\ lastExc' = "none"
    /\ UNCHANGED <<filesystem, diskVars, nextId, now, txVars, queueVars, key_usage_count>>
    /\ UNCHANGED <<authVars, ssVars, cryptoVars, streamVars>>
    /\ UNCHANGED <<unlocked_folders, outputPath, issues>>

\* verify_integrity, one iteration of its loop over the files: the issue it
\* appends for file_id, or "none".  The temporary file is asked of the
\* crypto manager inside the try, and decrypt_file is given no folder key.
integrity_issue(tree, cipher, file_id) ==
    IF tree.files[file_id].vault_filename \notin cipher THEN "not found"
    ELSE IF "_create_secure_temp_file" \notin CryptoManagerMethods THEN "check failed"
    ELSE IF needs_rekeying(key_usage_count) THEN "check failed"
    ELSE IF tree.files[file_id].folder_id \in ProtectedFolders THEN "check failed"
    ELSE IF calculate_file_hash(decrypt_file(file_id)) # tree.files[file_id].hash
         THEN "hash mismatch"
    ELSE "none"

\* verify_integrity(): the issues it returns, by file
verify_integrity(tree, cipher) ==
    {<<f, integrity_issue(tree, cipher, f)>> :
        f \in {g \in DOMAIN tree.files : integrity_issue(tree, cipher, g) # "none"}}

VerifyIntegrity ==
    /\ AtRest
    /\ issues' = verify_integrity(filesystem, cipherFiles)
    /\ lastCall' = "verify_integrity"
    /\ lastExc' = "none"
    /\ UNCHANGED <<filesystem, diskVars, cipherFiles, nextId, now, txVars, queueVars,
                   key_usage_count>>
    /\ UNCHANGED <<authVars, ssVars, cryptoVars, streamVars>>
    /\ UNCHANGED <<unlocked_folders, replaced, outputPath>>

NextFiles ==
    \/ \E d \in FolderIds : AddFolder(d)
    \/ \E d \in FolderIds, password \in FolderPasswords : UnlockFolder(d, password)
    \/ \E d \in FolderIds : LockFolder(d)
    \/ \E p \in Paths, d \in FolderIds \cup {"root"} : CallAddFileTo(1, p, d)
    \/ \E f \in ExtractIds : CallExtractFile(1, f)
    \/ process_operations
    \/ Return(1)
    \/ \E id \in ExtractIds : ReplaceVaultFile(id)
    \/ \E id \in ExtractIds : RemoveVaultFile(id)
    \/ VerifyIntegrity

SpecFiles == Init /\ [][NextFiles]_vars

\* the worker runs an extract_file request for a file whose vault file is
\* there and may be read
ExtractRuns(file_id) ==
    /\ opQueue # << >>
    /\ Head(opQueue).func = "extract_file"
    /\ Head(opQueue).arg = file_id
    /\ file_id \in DOMAIN filesystem.files
    /\ filesystem.files[file_id].vault_filename \in cipherFiles
    /\ filesystem.files[file_id].folder_id \in unlocked_folders \cup {"root"}
    /\ process_operations

HashDiffers(file_id) ==
    calculate_file_hash(decrypt_file(file_id)) # filesystem.files[file_id].hash

\* C23: extract_file raises an integrity error and leaves the output path as
\* it was whenever the hash of the decrypted content differs from the stored
\* hash; the output path is written only after the hashes were found equal.
C23_ExtractChecksHash ==
    [][\A f \in ExtractIds :
          ExtractRuns(f) =>
              /\ HashDiffers(f) => (lastExc' = "ValueError" /\ outputPath' = outputPath)
              /\ outputPath' # outputPath => ~HashDiffers(f)]_vars

\* the part that holds: no extract_file writes the output path of a file
\* whose hash differs
ExtractNeverWritesMismatch ==
    [][\A f \in ExtractIds :
          (ExtractRuns(f) /\ HashDiffers(f)) => outputPath' = outputPath]_vars

\* what verify_integrity is to report for a file: its vault file is missing,
\* or what it decrypts to does not have the stored hash
Damaged(file_id) ==
    \/ filesystem.files[file_id].vault_filename \notin cipherFiles
    \/ HashDiffers(file_id)

\* C24: verify_integrity() reports an issue for a file if and only if its
\* ciphertext file is missing or decrypting and re-hashing it does not
\* reproduce the stored hash; an intact file, in the root or in a protected
\* folder, gets no issue, and one failure does not stop the other checks.
C24_IssuesIffDamaged ==
    (lastCall = "verify_integrity") =>
        \A f \in DOMAIN filesystem.files :
            (\E issue \in issues : issue[1] = f) <=> Damaged(f)

\* the parts that hold: every damaged file is reported, whatever else is
\* reported, and only files of the tree are
DamagedAreReported ==
    (lastCall = "verify_integrity") =>
        /\ \A f \in DOMAIN filesystem.files :
              Damaged(f) => \E issue \in issues : issue[1] = f
        /\ \A issue \in issues : issue[1] \in DOMAIN filesystem.files

\* the worker runs an add_file request
AddRuns ==
    /\ opQueue # << >>
    /\ Head(opQueue).func = "add_file"
    /\ process_operations

\* C26: add_file fails with a permission error when the target folder is
\* protected and not unlocked, and with a not-found error when the source
\* path does not exist, in both cases with the tree unchanged and no
\* ciphertext file created; add_file to an existing folder that is not
\* password-protected succeeds.
C26_AddFileChecks ==
    [][AddRuns =>
          LET req == Head(opQueue) IN
          /\ (req.folder_id \in ProtectedFolders /\ req.folder_id \notin unlocked_folders)
                => /\ lastExc' = "PermissionError"
                   /\ filesystem' = filesystem /\ cipherFiles' = cipherFiles
          /\ (/\ req.arg = "missing"
              /\ req.folder_id \in DOMAIN filesystem.folders
              /\ req.folder_id \notin ProtectedFolders \ unlocked_folders)
                => /\ lastExc' = "FileNotFoundError"
                   /\ filesystem' = filesystem /\ cipherFiles' = cipherFiles
          /\ (/\ req.arg = "good"
              /\ req.folder_id \in DOMAIN filesystem.folders
              /\ req.folder_id \notin ProtectedFolders)
                => /\ lastExc' = "none"
                   /\ response'[req.caller].kind = "success"
                   /\ response'[req.caller].value \in DOMAIN filesystem'.files]_vars

\* the parts that hold: the two refusals, and the success of an add_file to
\* the root while the master key may be retrieved
AddFileRefusals ==
    [][AddRuns =>
          LET req == Head(opQueue) IN
          /\ (req.folder_id \in ProtectedFolders /\ req.folder_id \notin unlocked_folders)
                => /\ lastExc' = "PermissionError"
                   /\ filesystem' = filesystem /\ cipherFiles' = cipherFiles
          /\ (req.arg = "missing" /\ req.folder_id \in unlocked_folders \cup {"root"})
                => /\ lastExc' = "FileNotFoundError"
                   /\ filesystem' = filesystem /\ cipherFiles' = cipherFiles
          /\ (req.arg = "good" /\ req.folder_id = "root" /\ ~needs_rekeying(key_usage_count))
                => /\ lastExc' = "none"
                   /\ response'[req.caller].value \in DOMAIN filesystem'.files]_vars

\* commit() of t runs a staged delete_file
DeleteRuns(t) ==
    /\ txState[t] = "executing"
    /\ txIdx[t] < Len(txOps[t])
    /\ txOps[t][txIdx[t] + 1].type = "delete_file"
    /\ CommitStepOk(t) \/ CommitStepFail(t)

\* id is the child of no folder of the tree
NoChild(tree, id) ==
    \A d \in DOMAIN tree.folders :
        \A i \in DOMAIN tree.folders[d].children : tree.folders[d].children[i] # id

\* C25: a commit with a staged delete_file(id) for an existing file removes
\* the FileNode, the id from its folder's child list and the ciphertext file,
\* and goes on; a staged delete_file of an unknown id makes the commit fail.
C25_DeleteFileCommits ==
    [][\A t \in Txs :
          DeleteRuns(t) =>
              LET id == txOps[t][txIdx[t] + 1].file_id IN
              IF id \in DOMAIN filesystem.files
              THEN /\ txState'[t] = "executing"
                   /\ id \notin DOMAIN filesystem'.files
                   /\ NoChild(filesystem', id)
                   /\ filesystem.files[id].vault_filename \notin cipherFiles'
              ELSE txState'[t] = "failed"]_vars

\* the part that holds: a staged delete_file of an unknown id makes the
\* commit fail
UnknownDeleteFails ==
    [][\A t \in Txs :
          (DeleteRuns(t) /\ txOps[t][txIdx[t] + 1].file_id \notin DOMAIN filesystem.files)
              => (txState'[t] = "failed" /\ lastExc' = "TransactionError")]_vars

(***************************************************************************)
(* What a recovery attempt and a password attempt leave in the records     *)
(***************************************************************************)

\* C27: every recover_master_key call that is not rejected by the lockout
\* and fails adds exactly one timestamp to the attempt history; a successful
\* call adds none.
C27_OneTimestampPerFailure ==
    [][\A a \in AnswerLists :
          Recover(a) =>
              CASE lastResult'.kind = "PermissionError" -> TRUE
                [] lastResult'.kind = "ok" -> Len(failed_attempts') <= Len(failed_attempts)
                [] OTHER -> /\ Len(history') = Len(history) + 1
                            /\ failed_attempts' = record_attempt(failed_attempts, clock)]_vars

\* the part that holds: one timestamp for a failure of a vault whose
\* recovery is configured, none for a success
OneTimestampWhenConfigured ==
    [][\A a \in AnswerLists :
          (Recover(a) /\ config.encrypted_recovery_encoder.kind # "NO_RECOVERY_SETUP") =>
              CASE lastResult'.kind = "PermissionError" -> failed_attempts' = failed_attempts
                [] lastResult'.kind = "ok" -> failed_attempts' = << >>
                [] OTHER -> /\ Len(history') = Len(history) + 1
                            /\ failed_attempts' = record_attempt(failed_attempts, clock)]_vars

\* the passwords tried against a vault created with "pwA"
UnlockPasswords == {"pwA", "pwB"}

\* the answers tried: the configured ones and a wrong list
UnlockAnswers == {ConfiguredAnswers, << <<"a">>, <<"c">> >>}

\* a call of verify_master_password(password)
VerifyMasterPassword(password) ==
    /\ lastResult' = IF config = None
                     THEN Outcome("verify_master_password", <<password>>, "RuntimeError", None)
                     ELSE Outcome("verify_master_password", <<password>>,
                                  IF verify_master_password(config, password)
                                  THEN "True" ELSE "False", None)
    /\ UNCHANGED <<config, config_file, nKeys, curPw, persistFailed>>
    /\ UNCHANGED lockoutVars
    /\ UNCHANGED <<storeVars, ssVars, cryptoVars, streamVars, fileVars>>

\* SpecUnlock: password attempts and recovery attempts on one credential
NextUnlock ==
    \/ \E d \in TickSteps : TickAuth(d)
    \/ \E a \in UnlockAnswers : Recover(a)
    \/ \E a \in UnlockAnswers : VerifyAnswers(a)
    \/ \E p \in UnlockPasswords : GetMasterKey(p)
    \/ \E p \in UnlockPasswords : VerifyMasterPassword(p)

SpecUnlock == InitLockout /\ [][NextUnlock]_vars

\* C28: verify_master_password and get_master_key, whether they succeed or
\* fail, never add, remove or clear recovery attempt records, so the lockout
\* state is the same after the call as before it, and an active recovery
\* lockout never makes an unlock with the current password fail.
C28_PasswordPathLeavesLockout ==
    [][\A p \in UnlockPasswords :
          (GetMasterKey(p) \/ VerifyMasterPassword(p)) =>
              /\ failed_attempts' = failed_attempts
              /\ history' = history
              /\ is_locked_out(failed_attempts', clock') = is_locked_out(failed_attempts, clock)
              /\ p = curPw => lastResult'.kind \in {"ok", "True"}]_vars

\* a get_master_key with the current password has returned the key while
\* the recovery of the credential is locked out
C28_Witness ==
    /\ is_locked_out(failed_attempts, clock)
    /\ lastResult.op = "get_master_key"
    /\ lastResult.arg = <<curPw>>
    /\ lastResult.kind = "ok"
    /\ Len(failed_attempts) >= max_attempts

(***************************************************************************)
(* SpecAnswers: checking recovery answers of either letter case           *)
(***************************************************************************)

\* the answers a vault is set up with: all lower case, or with a capital
ConfiguredAnswerSets == {<< <<"a">>, <<"b">> >>, << <<"A">>, <<"b">> >>}

\* the vault after create_master_password("pwA", hint, questions)
InitAnswers ==
    /\ \E q \in ConfiguredAnswerSets : config = create_master_password("pwA", "hint", q, 1)
    /\ failed_attempts = << >>
    /\ history = << >>
    /\ clock = 0
    /\ slept = 0
    /\ nKeys = 1
    /\ curPw = "pwA"
    /\ config_file = config
    /\ persistFailed = FALSE
    /\ lastResult = NoCall
    /\ StoreInit /\ SSIdle /\ CryptoIdle /\ StreamIdle /\ FileIdle

NextAnswers ==
    \/ \E d \in TickSteps : TickAuth(d)
    \/ \E a \in AnswerLists : VerifyAnswers(a)

SpecAnswers == InitAnswers /\ [][NextAnswers]_vars

\* the answers the stored records were made from
AnswersOf(cfg) ==
    [i \in DOMAIN cfg.recovery_questions |-> cfg.recovery_questions[i].answer_hash.secret[1]]

\* C29: after recovery questions have been configured with answers A1..An,
\* of any letter case, verify_recovery_answers, while the credential is not
\* locked out, returns True when given exactly A1..An in order and False
\* when an answer or the number of answers differs.
C29_ConfiguredAnswersVerify ==
    (/\ lastResult.op = "verify_recovery_answers"
     /\ ~is_locked_out(lastResult.prior, lastResult.at))
        => (lastResult.kind = "True" <=> lastResult.arg = AnswersOf(config))

\* what holds: True exactly for the answers that, put in lower case, are
\* the configured ones
LowerCaseAnswersVerify ==
    (/\ lastResult.op = "verify_recovery_answers"
     /\ ~is_locked_out(lastResult.prior, lastResult.at))
        => (lastResult.kind = "True"
               <=> [i \in DOMAIN lastResult.arg |-> lower(lastResult.arg[i])] = AnswersOf(config))

(***************************************************************************)
(* The backup directory over a commit that fails                           *)
(***************************************************************************)

\* C30: after a commit() that failed and rolled back, the files of the
\* backup directory and their contents are those from before commit() was
\* called: the transaction's own snapshot is gone and no retained backup was
\* added, pruned or overwritten.
C30_FailedCommitLeavesBackups ==
    [][\A t \in Txs :
          CommitStepFail(t) =>
              /\ txBackups'[t] = NoFile
              /\ \A u \in Txs \ {t} : txBackups'[u] = txBackups[u]
              /\ backups' = backups
              /\ quarantine' = quarantine]_vars

\* the part that holds: the retained backups and the other transactions'
\* snapshots are as they were
RollbackLeavesRetainedBackups ==
    [][\A t \in Txs :
          CommitStepFail(t) =>
              /\ \A u \in Txs \ {t} : txBackups'[u] = txBackups[u]
              /\ backups' = backups
              /\ quarantine' = quarantine]_vars

(***************************************************************************)
(* What commit() raises when the restore inside _rollback fails            *)
(***************************************************************************)

\* _rollback of t has a snapshot to restore and _restore_from_backup raises
\* on it; the handler of _rollback logs the exception and returns
RestoreFails(t) ==
    /\ txBackupFiles[t] # << >>
    /\ ~restore_from_backup(txBackups[t], filesystem, primary, backups, now,
                            key_usage_count).ok

\* C31: when the restore of the pre-commit snapshot fails during the
\* rollback, commit() raises something other than the TransactionError of an
\* ordinary rollback; it raises that TransactionError only with the tree
\* restored.
C31_RollbackFailureReported ==
    [][\A t \in Txs :
          (CommitStepFail(t) /\ RestoreFails(t)) =>
              /\ lastExc' # "none"
              /\ lastExc' # "TransactionError"]_vars

\* the part that holds: a commit() whose operation raised never returns
\* normally, and the transaction ends 'failed'
FailedCommitRaises ==
    [][\A t \in Txs :
          CommitStepFail(t) => (lastExc' # "none" /\ txState'[t] = "failed")]_vars

(***************************************************************************)
(* The life cycle of a transaction                                         *)
(***************************************************************************)

\* the step takes t from 'executing' through 'rolling_back' and one call of
\* _rollback to 'failed': the handler of the loop of commit()
RolledBack(t) == CommitStepFail(t)

\* the state of t changes along the life cycle in this step
LifecycleStep(t) ==
    \/ txState[t] = "initialized" /\ txState'[t] = "executing"
    \/ txState[t] = "executing" /\ txState'[t] = "committed"
    \/ txState[t] = "executing" /\ txState'[t] = "failed" /\ RolledBack(t)

\* C32: the state of a transaction changes only from 'initialized' to
\* 'executing', from 'executing' to 'committed', or from 'executing' through
\* 'rolling_back' and one call of _rollback to 'failed'; 'committed' and
\* 'failed' are never left; this also when the with-block raises.
C32_TransactionLifecycle ==
    [][\A t \in Txs : txState'[t] # txState[t] => LifecycleStep(t)]_vars

\* the part that holds: outside __exit__, and with the master key usable,
\* the state changes along the life cycle; 'failed' is never left and no
\* state leads back to 'initialized'
CommitFollowsLifecycle ==
    [][\A t \in Txs :
          /\ (txState'[t] # txState[t] /\ lastCall' # "exit"
                  /\ ~needs_rekeying(key_usage_count)) => LifecycleStep(t)
          /\ txState[t] = "failed" => txState'[t] = "failed"
          /\ txState[t] # "initialized" => txState'[t] # "initialized"]_vars

(***************************************************************************)
(* The strength policy and the current master password                     *)
(***************************************************************************)

\* this step is a create_master_password or a change_master_password call
\* that offers password as the new master password
Offers(password) ==
    \/ \E q \in QuestionSets, saved \in BOOLEAN : Create(password, q, saved)
    \/ \E old \in Passwords, saved \in BOOLEAN : ChangePassword(old, password, saved)

\* the call is rejected and the credential record is as it was
RejectedUnchanged ==
    /\ lastResult'.kind = "ValueError"
    /\ config' = config
    /\ config_file' = config_file
    /\ curPw' = curPw

\* C33: the current master password, set by create_master_password or by
\* change_master_password, always satisfies the strength policy, and a call
\* that offers a password violating it is rejected and leaves the credential
\* record unchanged.
C33_OnlyStrongPasswords ==
    [][ /\ curPw' # "none" => validate_password_strength(curPw')
        /\ \A p \in Passwords :
              (Offers(p) /\ ~validate_password_strength(p)) => RejectedUnchanged
      ]_vars

\* the part that holds: create_master_password rejects a password that
\* violates the policy and leaves the credential record unchanged
CreateEnforcesPolicy ==
    [][\A p \in Passwords, q \in QuestionSets, saved \in BOOLEAN :
          (Create(p, q, saved) /\ ~validate_password_strength(p)) => RejectedUnchanged
      ]_vars

(***************************************************************************)
(* crypto.py: the use counters of the auxiliary keys.  SpecAux follows one *)
(* caller of encrypt_data and decrypt_data beside the threads that         *)
(* register and unregister keys, from a manager whose key k1 has been      *)
(* retrieved max_usage_before_rekey - MaxKeyUsesLeft times.                *)
(***************************************************************************)
AuxKeyIds == {"k1", "k2"}
AuxArgs == {"none"} \cup AuxKeyIds

\* register_key("k1", key) followed by encrypt_data(data, "k1") calls
InitAux ==
    /\ StoreInit /\ AuthIdle /\ SSIdle /\ StreamIdle /\ FileIdle
    /\ master_loaded = TRUE
    /\ active_keys = [k \in {"k1"} |->
                         Container(TRUE, max_usage_before_rekey - MaxKeyUsesLeft)]
    /\ cmPc = [t \in Threads |-> CMIdlePosition]
    /\ cmRes = CMResult(0, "none", "none", "none", "none")
    /\ retrievals = max_usage_before_rekey - MaxKeyUsesLeft
    /\ cmCleared = FALSE

NextAux ==
    \/ \E key_id \in AuxArgs : CMCall(1, key_id)
    \/ CMNeedsRekeying(1)
    \/ CMRetrieve(1)
    \/ CMActiveKey(1)
    \/ \E key_id \in AuxKeyIds : RegisterKey(key_id)
    \/ \E key_id \in AuxKeyIds : UnregisterKey(key_id)

SpecAux == InitAux /\ [][NextAux]_vars

\* the use count of the registered key k, -1 when k is not registered
AuxCount(keys, k) == IF k \in DOMAIN keys THEN keys[k].count ELSE -1

\* every container but that of key k, and the master key, are as they were
OthersUnchanged(k) ==
    /\ \A j \in AuxKeyIds \ {k} : AuxCount(active_keys', j) = AuxCount(active_keys, j)
    /\ key_usage_count' = key_usage_count
    /\ master_loaded' = master_loaded

\* the counters do not influence one another: a call that names a registered
\* key counts on that key alone, a call on the master key leaves every
\* registered key as it was, and register_key and unregister_key touch only
\* the key they name
CountersIndependent ==
    /\ \A t \in Threads : CMActiveKey(t) => OthersUnchanged(cmPc[t].key_id)
    /\ \A t \in Threads : (CMNeedsRekeying(t) \/ CMRetrieve(t)) => active_keys' = active_keys
    /\ \A k \in AuxKeyIds : (RegisterKey(k) \/ UnregisterKey(k)) => OthersUnchanged(k)

\* C34: a call of encrypt_data or decrypt_data that names a registered key
\* retrieved 100 times since its registration fails with SecurityError, and
\* the counters of the keys are independent of one another and of the master
\* key's, registering and unregistering included.
C34_AuxiliaryKeyCeiling ==
    [][ /\ \A t \in Threads :
              (CMActiveKey(t) /\ AuxCount(active_keys, cmPc[t].key_id) >= max_usage_before_rekey)
                  => cmRes'.kind = "SecurityError"
        /\ CountersIndependent ]_vars

\* the part that holds: the independence of the counters
KeyCountersIndependent == [][CountersIndependent]_vars

(***************************************************************************)
(* crypto.py: encrypt_file and decrypt_file, which hand a file over to     *)
(* encrypt_large_file or decrypt_large_file by its size in bytes.          *)
(***************************************************************************)

\* 10 * 1024 * 1024 in encrypt_file and in decrypt_file
large_file_threshold == 10485760

\* lengths of the plaintext files: empty, one byte, the longest whose vault
\* file is not over the threshold, the shortest whose vault file is, the
\* threshold itself and one byte more
PlainSizes == {0, 1, 7864143, 7864144, large_file_threshold, large_file_threshold + 1}

\* os.path.getsize of the vault file: the 4 bytes of the key length, the
\* sealed file key and the tokens
VaultFileSize(vault) == 4 + vault.key_length + BodySize(vault.body)

\* file_size > 10 * 1024 * 1024: the file goes to the chunked method
is_large(file_size) == file_size > large_file_threshold

\* the key the file key is sealed under
WrapKey(folder_key) == IF folder_key = "none" THEN MasterKey ELSE folder_key

\* file_fernet.decrypt(encrypted_data) on everything after the header:
\* Fernet accepts exactly one whole token sealed under its key
fernet_decrypt_rest(key, body) ==
    IF Len(body) = 1 /\ body[1].key = key
    THEN [kind |-> "ok", out |-> <<[start |-> body[1].start, len |-> body[1].len]>>]
    ELSE [kind |-> "InvalidToken", out |-> << >>]

\* encrypt_file(file_path, folder_key) on a file of size bytes: a large
\* file is handed to encrypt_large_file, any other is sealed in one token
EncryptFile(size, folder_key) ==
    /\ lfState \in {"idle", "done", "failed"}
    /\ lfSize' = size
    /\ lfFolderKey' = folder_key
    /\ lfRdPos' = 0
    /\ lfOut' = << >>
    /\ IF is_large(size)
       THEN /\ lfState' = "encrypt_open"
            /\ lfInPos' = 0
            /\ lfVault' = None
            /\ lfExc' = "none"
            /\ UNCHANGED key_usage_count
       ELSE IF folder_key = "none" /\ needs_rekeying(key_usage_count)
       THEN /\ lfState' = "failed"
            /\ lfInPos' = 0
            /\ lfVault' = None
            /\ lfExc' = "SecurityError"
            /\ UNCHANGED key_usage_count
       ELSE /\ lfState' = "stored"
            /\ lfInPos' = size
            /\ lfVault' = [kind |-> "vault_file",
                           key_length |-> token_len(44),
                           encrypted_file_key |-> Fernet_encrypt(WrapKey(folder_key), FileKey),
                           body |-> <<Token(FileKey, 0, size)>>]
            /\ lfExc' = "none"
            /\ key_usage_count' = IF folder_key = "none" THEN key_usage_count + 1
                                  ELSE key_usage_count
    /\ UNCHANGED <<vaultVars, authVars, ssVars, cryptoVars, fileVars>>

\* decrypt_file(vault_file_path, output_path, folder_key): a large vault
\* file is handed to decrypt_large_file, whose steps up to its loop follow
\* here; any other is opened as one token
DecryptFile ==
    /\ lfState = "stored"
    /\ IF lfFolderKey = "none" /\ needs_rekeying(key_usage_count)
       THEN /\ lfState' = "failed"
            /\ lfExc' = "SecurityError"
            /\ UNCHANGED <<key_usage_count, lfOut>>
       ELSE /\ key_usage_count' = IF lfFolderKey = "none" THEN key_usage_count + 1
                                  ELSE key_usage_count
            /\ IF ~Fernet_can_decrypt(WrapKey(lfFolderKey), lfVault.encrypted_file_key)
               THEN lfState' = "failed" /\ lfExc' = "InvalidToken" /\ UNCHANGED lfOut
               ELSE IF is_large(VaultFileSize(lfVault))
               THEN lfState' = "decrypting" /\ UNCHANGED <<lfExc, lfOut>>
               ELSE LET r == fernet_decrypt_rest(lfVault.encrypted_file_key.data,
                                                 lfVault.body) IN
                    /\ lfState' = IF r.kind = "ok" THEN "done" ELSE "failed"
                    /\ lfExc' = IF r.kind = "ok" THEN "none" ELSE r.kind
                    /\ lfOut' = r.out
    /\ UNCHANGED <<lfSize, lfFolderKey, lfInPos, lfVault, lfRdPos>>
    /\ UNCHANGED <<vaultVars, authVars, ssVars, cryptoVars, fileVars>>

NextModes ==
    \/ \E size \in PlainSizes, folder_key \in FolderKeys : EncryptFile(size, folder_key)
    \/ LFEncryptOpen
    \/ LFEncryptChunk
    \/ DecryptFile
    \/ LFDecryptChunk

SpecModes == Init /\ [][NextModes]_vars

\* the vault file was written by the mode that now reads it
SameMode == is_large(VaultFileSize(lfVault)) = is_large(lfSize)

\* C35: decrypt_file handles every vault file in the mode in which
\* encrypt_file wrote it, and for a plaintext that is not over the threshold
\* the pair of calls writes the plaintext back; the only call that may fail
\* is one refused the master key.
C35_SameModeBothWays ==
    /\ lfState = "decrypting" => SameMode
    /\ (~is_large(lfSize) /\ lfState = "failed") => lfExc = "SecurityError"
    /\ (~is_large(lfSize) /\ lfState = "done") => IsPlaintext(lfOut, lfSize)

\* the part that holds: a plaintext whose vault file is not over the
\* threshold comes back, and a plaintext over the threshold is written and
\* read by the chunked methods
SmallFilesRoundTrip ==
    /\ (lfState = "stored" /\ is_large(lfSize)) => SameMode
    /\ (lfState = "stored" /\ ~is_large(VaultFileSize(lfVault))) => SameMode
    /\ (lfSize < 7864144 /\ lfState = "failed") => lfExc = "SecurityError"
    /\ (lfSize < 7864144 /\ lfState = "done") => IsPlaintext(lfOut, lfSize)

(***************************************************************************)
(* vault_core.py: the callers of add_file and extract_file over the life   *)
(* of the store, cleanup() included.  The worker thread runs whenever the  *)
(* queue holds an entry, and a caller whose result has arrived goes on.    *)
(***************************************************************************)

\* the add_file requests in the queue whose source file exists
QueuedAdds == Cardinality({i \in DOMAIN opQueue : opQueue[i].func = "add_file"
                                                     /\ opQueue[i].arg = "good"})

\* a call of add_file while file ids are left for the requests before it
LiveAddFile(c, p) ==
    /\ nextId + QueuedAdds < MaxFiles
    /\ callerPc[c] = "idle"
    /\ opQueue' = Append(opQueue, [func |-> "add_file", arg |-> p, folder_id |-> "root",
                                    caller |-> c])
    /\ callerPc' = [callerPc EXCEPT ![c] = "waiting"]
    /\ UNCHANGED <<filesystem, diskVars, cipherFiles, nextId, now, txVars, response,
                   worker, callVars, key_usage_count>>
    /\ UNCHANGED <<authVars, ssVars, cryptoVars, streamVars, fileVars>>

\* cleanup(): the stop signal is put on the queue (the join that follows
\* waits at most five seconds and changes nothing)
Cleanup ==
    /\ worker = "running"
    /\ \A i \in DOMAIN opQueue : opQueue[i] # StopSignal
    /\ opQueue' = Append(opQueue, StopSignal)
    /\ UNCHANGED <<filesystem, diskVars, cipherFiles, nextId, now, txVars, response,
                   worker, callerPc, callVars, key_usage_count>>
    /\ UNCHANGED <<authVars, ssVars, cryptoVars, streamVars, fileVars>>

NextLive ==
    \/ \E c \in Callers, p \in Paths : LiveAddFile(c, p)
    \/ \E c \in Callers, f \in ExtractIds : CallExtractFile(c, f)
    \/ process_operations
    \/ \E c \in Callers : Return(c)
    \/ Cleanup

SpecLive ==
    /\ Init
    /\ [][NextLive]_vars
    /\ WF_vars(process_operations)
    /\ \A c \in Callers : WF_vars(Return(c))

\* C36: every add_file and extract_file call returns or raises in the end,
\* whenever it is made: after a queued operation that raised, and after
\* cleanup() has stopped the worker.
C36_EveryCallReturns ==
    \A c \in Callers : (callerPc[c] = "waiting") ~> (callerPc[c] = "idle")

\* the request of caller c is in the queue before any stop signal, or its
\* result has arrived
Served(c) ==
    \/ response[c] # None
    \/ /\ worker = "running"
       /\ \E i \in DOMAIN opQueue :
             /\ opQueue[i].caller = c
             /\ \A j \in 1 .. i : opQueue[j] # StopSignal

\* the part that holds: a call made before cleanup() returns or raises in
\* the end, also behind requests that raised
CallsBeforeCleanupReturn ==
    \A c \in Callers : (callerPc[c] = "waiting" /\ Served(c)) ~> (callerPc[c] = "idle")

(***************************************************************************)
(* The ciphertext files beside the FileNodes of the tree                   *)
(***************************************************************************)

\* the vault files the FileNodes of tree name
ReferencedFiles(tree) == {tree.files[f].vault_filename : f \in DOMAIN tree.files}

\* every ciphertext file is named by exactly one FileNode and every
\* FileNode's ciphertext file exists
OneNodePerCiphertext(tree, cipher) ==
    /\ cipher = ReferencedFiles(tree)
    /\ \A f \in DOMAIN tree.files, g \in DOMAIN tree.files :
          tree.files[f].vault_filename = tree.files[g].vault_filename => f = g

\* C37: after every add_file call and every commit(), returned or rolled
\* back, each ciphertext file is named by exactly one FileNode and each
\* FileNode's ciphertext file exists, and after a rollback none of the
\* ciphertext files the transaction's operations wrote is left.
C37_NoCiphertextLeftBehind ==
    [][ /\ OneNodePerCiphertext(filesystem', cipherFiles')
        /\ \A t \in Txs :
              CommitStepFail(t) => cipherFiles' \cap Range(txResults[t]) = {} ]_vars

\* the part that holds: the FileNodes and the ciphertext files correspond
\* one to one
NodesMatchCiphertexts == OneNodePerCiphertext(filesystem, cipherFiles)

(***************************************************************************)
(* The owning folder of a FileNode.  SpecOwner follows add_file calls and  *)
(* one transaction on a tree that is given folders and loaded again while *)
(* the folder manager keeps its unlocked folders.                          *)
(***************************************************************************)
NextOwner ==
    \/ \E d \in ProtectedFolders : AddFolder(d)
    \/ \E d \in ProtectedFolders, password \in FolderPasswords : UnlockFolder(d, password)
    \/ \E p \in Paths, d \in ProtectedFolders \cup {"root"} : CallAddFileTo(1, p, d)
    \/ process_operations
    \/ Return(1)
    \/ \E op \in {o \in StagedOps : o.type = "add_file"} : Stage(1, op)
    \/ CommitBegin(1)
    \/ CommitStepOk(1)
    \/ CommitStepFail(1)
    \/ CommitFinish(1)
    \/ Load

SpecOwner == Init /\ [][NextOwner]_vars

\* the folder_id of every FileNode names a folder of the tree, whose child
\* list holds the id of the file once
OwnersResolve(tree) ==
    \A f \in DOMAIN tree.files :
        /\ tree.files[f].folder_id \in DOMAIN tree.folders
        /\ Occurrences(tree.folders[tree.files[f].folder_id].children, f) = 1

\* the worker runs an add_file request that names a folder id the tree
\* does not have
AddToUnknownFolder ==
    /\ process_operations
    /\ Head(opQueue).func = "add_file"
    /\ Head(opQueue).folder_id \notin DOMAIN filesystem.folders

\* the request at the head of the queue is answered with an error and the
\* tree is as it was
AddRejected ==
    /\ response'[Head(opQueue).caller].kind = "error"
    /\ filesystem' = filesystem

\* C38: the folder_id of every FileNode names a folder of the tree, whose
\* child list holds the file's id exactly once, and an add_file that names a
\* folder id the tree does not have is rejected and adds no FileNode.
C38_OwnerFolderExists ==
    [][ /\ OwnersResolve(filesystem')
        /\ AddToUnknownFolder => AddRejected ]_vars

\* the part that holds: an add_file to a folder of the tree, direct or in a
\* transaction, keeps every owner resolved, and an add_file that names a
\* folder id which is neither in the tree nor unlocked is rejected
KnownFolderAddsResolve ==
    [][ /\ (OwnersResolve(filesystem) /\ ~AddToUnknownFolder /\ ~Load)
              => OwnersResolve(filesystem')
        /\ (AddToUnknownFolder /\ ~is_folder_unlocked(Head(opQueue).folder_id))
              => AddRejected ]_vars

(***************************************************************************)
(* change_master_password and setup_recovery_questions that fail           *)
(***************************************************************************)

\* this step is a change_master_password or setup_recovery_questions call
\* that raises
UpdateFails ==
    /\ \/ \E old \in Passwords, new \in Passwords, saved \in BOOLEAN :
             ChangePassword(old, new, saved)
       \/ \E p \in Passwords, q \in QuestionSets, saved \in BOOLEAN :
             SetupRecovery(p, q, saved)
    /\ lastResult'.kind # "ok"

\* every password that unlocked the vault before the step unlocks it after
StillUnlocks ==
    \A p \in Passwords :
        get_master_key(config, p).kind = "ok" => get_master_key(config', p).kind = "ok"

\* C39: a change_master_password or setup_recovery_questions call that
\* fails, on the current password or while the record is persisted, leaves
\* the credential record in memory and the one on disk as they were before
\* the call, and the password that unlocked the vault still unlocks it.
C39_FailedUpdateChangesNothing ==
    [][UpdateFails => (config' = config /\ config_file' = config_file /\ StillUnlocks)]_vars

\* the part that holds: a failed call leaves the record on disk as it was,
\* and one that fails on the current password leaves the record in memory
\* as it was too
FailedUpdateKeepsFile ==
    [][UpdateFails =>
          /\ config_file' = config_file
          /\ lastResult'.kind = "ValueError" => config' = config]_vars

(***************************************************************************)
(* _save_filesystem interrupted before the rename                          *)
(***************************************************************************)

\* where _save_filesystem may be cut short before os.replace: after
\* mkstemp, inside temp_file.write, and after the with block
InterruptSteps == {"temp_created", "writing", "before_rename"}

\* what the temporary file holds at each of these steps
TempContent(step, tree) ==
    IF step = "temp_created" THEN EmptyFile
    ELSE IF step = "writing" THEN Garbage
    ELSE encrypt_with_master_key(Payload(tree))

\* _save_filesystem cut short at step: by an exception, which the handlers
\* of _atomic_file_operation answer by unlinking the temporary file, or by
\* the end of the process (killed), which leaves the temporary file behind.
\* The record is sealed before the write, so from "writing" on the master
\* key has been retrieved once more.
SaveInterrupted(step, killed) ==
    /\ step # "temp_created" => ~needs_rekeying(key_usage_count)
    /\ tempFile' = IF killed THEN TempContent(step, filesystem) ELSE NoFile
    /\ key_usage_count' = IF step = "temp_created" THEN key_usage_count
                          ELSE key_usage_count + 1
    /\ lastCall' = "save_interrupted"
    /\ lastExc' = "Interrupted"
    /\ UNCHANGED <<filesystem, primary, backups, quarantine, cipherFiles, nextId, now,
                   txVars, queueVars>>
    /\ UNCHANGED <<authVars, ssVars, cryptoVars, streamVars, fileVars>>

\* SpecCut: files are added, the tree is saved, saves are cut short, the
\* vault is opened again
NextCut ==
    \/ Tick
    \/ \E p \in Paths : CallAddFile(1, p)
    \/ process_operations
    \/ Return(1)
    \/ Save
    \/ \E step \in InterruptSteps, killed \in BOOLEAN : SaveInterrupted(step, killed)
    \/ Load

SpecCut == Init /\ [][NextCut]_vars

\* the primary file holds a complete record: a sealed, checksummed payload
CompleteRecord(content) ==
    /\ CanDecrypt(content)
    /\ content.body.kind = "payload"
    /\ sha256(content.body.data) = content.body.checksum

\* this step is the load that follows a save cut short
LoadAfterInterrupt == lastCall = "save_interrupted" /\ Load

\* C40: when _save_filesystem is interrupted after the temporary file is
\* created, while it is written or before the rename, the primary file
\* holds the complete previous record or the complete new one, never a
\* partial or empty one, and the load that follows yields the tree of one of
\* these two records.
C40_InterruptedSaveIsAtomic ==
    [][/\ \A step \in InterruptSteps, killed \in BOOLEAN :
              SaveInterrupted(step, killed) =>
                  /\ CompleteRecord(primary')
                  /\ primary' \in {primary, encrypt_with_master_key(Payload(filesystem))}
       /\ LoadAfterInterrupt =>
              filesystem' \in {PersistedTree(primary),
                               PersistedTree(encrypt_with_master_key(Payload(filesystem)))}]_vars

\* the part that holds: an interrupted save leaves the primary file the
\* complete record it was, and the load that follows yields the tree of that
\* record whenever the master key may still be retrieved for the restore and
\* the save that ends it
InterruptedSaveKeepsPrimary ==
    [][/\ \A step \in InterruptSteps, killed \in BOOLEAN :
              SaveInterrupted(step, killed) =>
                  (CompleteRecord(primary') /\ primary' = primary)
       /\ (LoadAfterInterrupt /\ ~needs_rekeying(key_usage_count + 1)) =>
              filesystem' = PersistedTree(primary)]_vars

====
